---- MODULE Spec2Model ----
(***************************************************************************)
(* Model of the token-based authorization pipeline and of the declarative  *)
(* route registrar of the express-boilerplate repository.                   *)
(*                                                                         *)
(* Time is counted in whole seconds, the unit of Math.floor(Date.now() /   *)
(* 1000), of the jwt exp / iat claims and of the Redis SETEX ttl.          *)
(* Strings that the code concatenates (cache keys, jti values) are         *)
(* sequences of string segments, so that `blacklist:${jti}` is             *)
(* <<"blacklist:">> \o jti.                                                 *)
(***************************************************************************)
EXTENDS Integers, Sequences, FiniteSets, TLC

VARIABLES
    env,          \* the parsed environment (JWT_* settings), fixed at boot
    now,          \* the clock, in seconds
    issued,       \* the tokens signed so far by JWTService
    cache,        \* the Redis store: entries [key, val, at, ttl]
    cacheUp,      \* whether Redis is reachable
    req,          \* the authenticateJWT invocation suspended at its second await
    last,         \* what the step just taken did (the call and its result)
    revokedTokens,\* history: the latest completed addToBlacklist per jti
    revokedUsers, \* history: the latest completed blacklistUserTokens per user
    ops,          \* number of revocation calls made so far
    metadata,     \* Reflect metadata of each controller class and its prototype
    registry,     \* controllerRegistry: the registered classes, in insertion order
    mounted,      \* the routers mounted on the app by registerRoutes, and its result
    late,         \* number of declaration calls made after registerRoutes ran
    authDeclared, \* history: the <<class, member>> pairs Auth() was applied to
    trace,        \* the invocation record of the request last dispatched
    rateLimiters, \* the hit stores of the per-route limiters, and the request last counted
    sessions,     \* the rows of the sessions table
    calls,        \* the AuthService calls suspended at an await
    sessionLog    \* history: the logins made and the logouts completed

authVars == <<env, now, issued, cache, cacheUp, req, last, revokedTokens, revokedUsers, ops>>
routeVars == <<metadata, registry, mounted, late, authDeclared, trace, rateLimiters>>
sessionVars == <<sessions, calls, sessionLog>>
vars == <<env, now, issued, cache, cacheUp, req, last, revokedTokens, revokedUsers, ops,
          metadata, registry, mounted, late, authDeclared, trace, rateLimiters,
          sessions, calls, sessionLog>>

(***************************************************************************)
(* Bounds of the model.                                                    *)
(***************************************************************************)
MaxTime == 2
MaxTokens == 1
MaxOps == 1
MaxRoutes == 1
MaxMiddlewares == 2
MaxLate == 1
MaxIssued == 2
MaxRequests == 4
MaxDeclared == 2

\* The user ids revocation calls are made for, and those tokens are issued to.
Users == {"u1", "u2"}
Subjects == {"u1"}

\* nanoid(): a fresh identifier per call; the k-th call yields the k-th name.
NanoidNames == <<"n1", "n2", "n3", "n4", "n5", "n6", "n7", "n8">>
\* Mutant: every call yields the same identifier.
nanoid_Constant(k) == <<NanoidNames[1]>>

nanoid(k) == <<NanoidNames[k]>>

NoExp == -1     \* the exp claim is absent (undefined)
NoArg == -1     \* the optional expiresIn argument was not passed (undefined)
NoJti == <<>>   \* the jti claim is absent

(***************************************************************************)
(* Environment (env.ts) and JWTService.                                    *)
(***************************************************************************)
\* A duration string such as "15m": value is parseInt(timeStr.slice(0, -1)),
\* unit is timeStr.slice(-1).
Dur(v, u) == [value |-> v, unit |-> u]

Env(refreshKey, expiresIn, refreshExpiresIn) ==
    [JWT_SECRET |-> "access-secret", JWT_REFRESH_SECRET |-> refreshKey,
     JWT_EXPIRES_IN |-> expiresIn, JWT_REFRESH_EXPIRES_IN |-> refreshExpiresIn]

\* The configurations the model boots with.  JWT_REFRESH_SECRET defaults to ''
\* when it is not set.
EnvChoices ==
    {Env("", Dur(3, "s"), Dur(1, "s")),
     Env("refresh-secret", Dur(2, "s"), Dur(1, "m"))}

\* process.env as env.ts finds it.  JWT_SECRET: "access-secret" stands for a
\* string of 32 characters or more, "short" for a shorter one, "" for an unset
\* variable; JWT_REFRESH_SECRET likewise with the minimum of 64.  The
\* durations: "2s", "1m", and the strings "15min" (slice(-1) is "n",
\* parseInt("15mi") is 15) and "0s".
RawEnv(secretKey, refreshKey, expiresIn, refreshExpiresIn) ==
    [JWT_SECRET |-> secretKey, JWT_REFRESH_SECRET |-> refreshKey,
     JWT_EXPIRES_IN |-> expiresIn, JWT_REFRESH_EXPIRES_IN |-> refreshExpiresIn]

RawEnvChoices ==
    {RawEnv(k, r, d1, d2) :
        k \in {"access-secret", "short", ""},
        r \in {"refresh-secret", "short", ""},
        d1 \in {Dur(2, "s"), Dur(15, "n"), Dur(0, "s")},
        d2 \in {Dur(1, "m"), Dur(15, "n")}}

\* envSchema.safeParse(process.env).success, for the JWT_* variables:
\* JWT_SECRET z.string().min(32), JWT_REFRESH_SECRET z.string().min(64)
\* optional, the two durations z.string() with a default.
envSchema(e) ==
    /\ e.JWT_SECRET \notin {"", "short"}
    /\ e.JWT_REFRESH_SECRET # "short"

\* JWTService.constructor: this.secret, this.refreshSecret
secret(e) == e.JWT_SECRET
refreshSecret(e) == IF e.JWT_REFRESH_SECRET # "" THEN e.JWT_REFRESH_SECRET ELSE e.JWT_SECRET

parseTime(d) ==
    CASE d.unit = "s" -> d.value
      [] d.unit = "m" -> d.value * 60
      [] d.unit = "h" -> d.value * 60 * 60
      [] d.unit = "d" -> d.value * 24 * 60 * 60
      [] OTHER -> 3600

getExpiresInSeconds(e) == parseTime(e.JWT_EXPIRES_IN)
getRefreshExpiresInSeconds(e) == parseTime(e.JWT_REFRESH_EXPIRES_IN)

\* A compact signed token, by the payload it carries and the key that signed it.
\* decodable = FALSE is a string jwt.decode() returns null for.
\* typ = "refresh" is the payload claim type: 'refresh'; profile holds the
\* email, username, roles and permissions claims, NoProfile when absent.
NoProfile == [email |-> "", username |-> "", roles |-> {}, permissions |-> {}]
Token(dec, key, typ, sub, jti, iat, exp) ==
    [decodable |-> dec, key |-> key, typ |-> typ, sub |-> sub, jti |-> jti,
     iat |-> iat, exp |-> exp, profile |-> NoProfile]

\* The AuthenticatedUser record of a user id (what login reads from the database).
AuthenticatedUser(id) ==
    [id |-> id, email |-> <<id, "@example.com">>, username |-> id,
     roles |-> {"user"}, permissions |-> {"read"}]

generateAccessToken(e, user, t, k) ==
    [Token(TRUE, secret(e), "access", user.id, nanoid(k), t, t + getExpiresInSeconds(e))
        EXCEPT !.profile = [email |-> user.email, username |-> user.username,
                            roles |-> user.roles, permissions |-> user.permissions]]

generateRefreshToken(e, userId, t, k) ==
    Token(TRUE, refreshSecret(e), "refresh", userId, nanoid(k), t, t + getRefreshExpiresInSeconds(e))

\* jwt.verify(token, key): the signature matches and, when exp is present, the
\* clock has not reached it.
jwtVerify(tok, key, t) ==
    /\ tok.decodable
    /\ tok.key = key
    /\ (tok.exp = NoExp \/ t < tok.exp)

\* verifyAccessToken returns the claims, or throws (FALSE here).
verifyAccessToken(e, tok, t) == jwtVerify(tok, secret(e), t)

\* Mutant: decoded.type is not looked at.
verifyRefreshToken_NoTypeCheck(e, tok, t) == jwtVerify(tok, refreshSecret(e), t)

\* verifyRefreshToken returns {sub, jti}, or throws (FALSE here).
verifyRefreshToken(e, tok, t) ==
    /\ jwtVerify(tok, refreshSecret(e), t)
    /\ tok.typ = "refresh"

\* The names of the claims a token's payload carries.
payloadClaims(tok) ==
    IF ~tok.decodable THEN {}
    ELSE {"sub", "iat"}
            \cup (IF tok.jti # NoJti THEN {"jti"} ELSE {})
            \cup (IF tok.exp # NoExp THEN {"exp"} ELSE {})
            \cup (IF tok.typ = "refresh" THEN {"type"} ELSE {})
            \cup (IF tok.profile # NoProfile
                  THEN {"email", "username", "roles", "permissions"} ELSE {})

\* The claims of the JWTPayload interface the claims of an access token must have.
RequiredAccessClaims == {"sub", "email", "username", "roles", "permissions", "jti", "exp"}

\* decodeToken: the payload, or null (a payload that is not decodable).
NullPayload == Token(FALSE, "", "", "", NoJti, NoExp, NoExp)
\* A three-part string whose header parses with typ "JWT" and whose payload
\* is not JSON: jwt.decode throws a SyntaxError on it.
MalformedToken == [NullPayload EXCEPT !.typ = "malformed"]

\* jwt.decode(token): the payload, null, or an exception
jwtDecode(tok) ==
    [threw |-> tok = MalformedToken,
     payload |-> IF tok.decodable THEN tok ELSE NullPayload]

\* Mutant: no try / catch around jwt.decode.
decodeTokenThrows_NoCatch(tok) == jwtDecode(tok).threw

\* try { return jwt.decode(token) } catch { return null }: nothing escapes
decodeTokenThrows(tok) == jwtDecode(tok).threw /\ FALSE

decodeToken(tok) == IF jwtDecode(tok).threw THEN NullPayload ELSE jwtDecode(tok).payload

\* Mutant: only a null payload is refused (!decoded instead of !decoded?.jti).
lacksJti_OnlyNull(decoded) == ~decoded.decodable

\* !decoded?.jti
lacksJti(decoded) == ~decoded.decodable \/ decoded.jti = NoJti

\* Strings presented by callers that JWTService never signed.
GarbageToken == NullPayload
ForgedNoJti == Token(TRUE, "attacker", "access", "u1", NoJti, 0, 2)
NoExpToken == Token(TRUE, "attacker", "access", "u1", <<"x1">>, 0, NoExp)
CraftedTokens == {GarbageToken, ForgedNoJti, NoExpToken}

(***************************************************************************)
(* CacheService (Redis): get and set swallow every Redis error.            *)
(***************************************************************************)
\* An entry written by SETEX at time `at` with `ttl` seconds is gone once
\* ttl seconds have passed.
live(entry, t) == t < entry.at + entry.ttl

\* redis.setex succeeds when Redis is reachable and the ttl is a positive integer.
setexOk(up, ttl) == up /\ ttl > 0

\* CacheService.set: TRUE when stored, FALSE when the Redis call failed.
cacheSetResult(up, ttl) == setexOk(up, ttl)

\* The store after CacheService.set(key, true, ttl) at time t.
cacheSet(c, up, key, ttl, t) ==
    IF setexOk(up, ttl)
    THEN {x \in c : x.key # key} \cup {[key |-> key, val |-> "true", at |-> t, ttl |-> ttl]}
    ELSE c

\* CacheService.get: the stored JSON text, or "null" when the key is absent,
\* expired, or the Redis call failed.
cacheGet(c, up, key, t) ==
    IF ~up THEN "null"
    ELSE IF \E x \in c : x.key = key /\ live(x, t)
         THEN (CHOOSE x \in c : x.key = key /\ live(x, t)).val
         ELSE "null"

(***************************************************************************)
(* TokenBlacklistService.                                                  *)
(***************************************************************************)
prefix == <<"blacklist:">>

\* calculateTTL(exp): remaining lifetime in seconds; !exp covers undefined and 0.
calculateTTL(exp, t) ==
    IF exp = NoExp \/ exp = 0 THEN 0
    ELSE IF exp - t > 0 THEN exp - t ELSE 0

\* const ttl = expiresIn || this.calculateTTL(decoded.exp)
chosenTTL(expiresIn, exp, t) ==
    IF expiresIn # NoArg /\ expiresIn # 0 THEN expiresIn ELSE calculateTTL(exp, t)

\* addToBlacklist(token, expiresIn?): the outcome of one call made at time t.
\*   threw     the promise rejected
\*   setCalled cacheService.set was invoked, with `key` and `ttl`
\*   stored    the entry reached Redis
\*   cache     the store afterwards
addToBlacklist(c, up, token, expiresIn, t) ==
    LET decoded == decodeToken(token)
        ttl == chosenTTL(expiresIn, decoded.exp, t)
        key == prefix \o decoded.jti
    IN  IF lacksJti(decoded)
        THEN [threw |-> TRUE, setCalled |-> FALSE, stored |-> FALSE,
              key |-> <<>>, ttl |-> 0, cache |-> c]
        ELSE IF ttl > 0
        THEN [threw |-> FALSE, setCalled |-> TRUE, stored |-> cacheSetResult(up, ttl),
              key |-> key, ttl |-> ttl, cache |-> cacheSet(c, up, key, ttl, t)]
        ELSE [threw |-> FALSE, setCalled |-> FALSE, stored |-> FALSE,
              key |-> <<>>, ttl |-> ttl, cache |-> c]

\* Mutant: the lookup key lacks the 'blacklist:' prefix.
isBlacklisted_BareKey(c, up, token, t) ==
    LET decoded == decodeToken(token)
    IN  IF lacksJti(decoded) THEN FALSE
        ELSE cacheGet(c, up, decoded.jti, t) = "true"

\* isBlacklisted(token)
isBlacklisted(c, up, token, t) ==
    LET decoded == decodeToken(token)
    IN  IF lacksJti(decoded) THEN FALSE
        ELSE cacheGet(c, up, prefix \o decoded.jti, t) = "true"

userKey(userId) == prefix \o <<"user:", userId>>

\* Mutant: expiresIn is not handed to cacheService.set, whose ttl defaults to 3600.
blacklistUserTokens_DefaultTTL(c, up, userId, expiresIn, t) ==
    [threw |-> FALSE, setCalled |-> TRUE, stored |-> cacheSetResult(up, 3600),
     key |-> userKey(userId), ttl |-> 3600,
     cache |-> cacheSet(c, up, userKey(userId), 3600, t)]

\* blacklistUserTokens(userId, expiresIn)
blacklistUserTokens(c, up, userId, expiresIn, t) ==
    [threw |-> FALSE, setCalled |-> TRUE, stored |-> cacheSetResult(up, expiresIn),
     key |-> userKey(userId), ttl |-> expiresIn,
     cache |-> cacheSet(c, up, userKey(userId), expiresIn, t)]

\* Mutant: a failed read counts as revoked (fail-closed).
isUserBlacklisted_FailClosed(c, up, userId, t) ==
    IF ~up THEN TRUE ELSE cacheGet(c, up, userKey(userId), t) = "true"

\* isUserBlacklisted(userId)
isUserBlacklisted(c, up, userId, t) ==
    cacheGet(c, up, userKey(userId), t) = "true"

\* AuthService.logoutAllDevices(userId): the revocation part (the session rows
\* it deletes are not read by any lookup of the authorization path).
logoutAllDevices(e, c, up, userId, t) ==
    blacklistUserTokens(c, up, userId, getRefreshExpiresInSeconds(e), t)

(***************************************************************************)
(* authenticateJWT (auth middleware).  The handler suspends at its two     *)
(* awaits; lookup 1 is read in the step that verifies the token, lookup 2  *)
(* in the step that resumes after the first await.                         *)
(***************************************************************************)
\* The Authorization header: scheme "none" is an absent header, empty = TRUE a
\* header with nothing after the scheme.
NoHeader == [scheme |-> "none", empty |-> TRUE, tok |-> GarbageToken]
BearerEmpty == [scheme |-> "Bearer ", empty |-> TRUE, tok |-> GarbageToken]
Bearer(tok) == [scheme |-> "Bearer ", empty |-> FALSE, tok |-> tok]

\* authHeader?.startsWith('Bearer ') ? authHeader.substring(7) : null, then !token
tokenMissing(h) == h.scheme # "Bearer " \/ h.empty

Response(code) == [status |-> 401, code |-> code]
Idle == [pc |-> "idle"]

\* Mutant: a blacklisted token falls into the catch block (INVALID_TOKEN).
authStage1_RevokedAsInvalid(e, c, up, h, t) ==
    LET base == [pc |-> "done", header |-> h, verifyCalled |-> FALSE, verified |-> FALSE,
                 lookups |-> <<>>, responses |-> <<>>, nextCalls |-> 0, user |-> "unset"]
    IN  IF tokenMissing(h)
        THEN [base EXCEPT !.responses = <<Response("TOKEN_REQUIRED")>>]
        ELSE IF ~verifyAccessToken(e, h.tok, t)
        THEN [base EXCEPT !.verifyCalled = TRUE,
                          !.responses = <<Response("INVALID_TOKEN")>>]
        ELSE LET b == isBlacklisted(c, up, h.tok, t)
                 seen == <<[fn |-> "isBlacklisted", result |-> b]>>
             IN  IF b
                 THEN [base EXCEPT !.verifyCalled = TRUE, !.verified = TRUE,
                                   !.lookups = seen,
                                   !.responses = <<Response("INVALID_TOKEN")>>]
                 ELSE [base EXCEPT !.pc = "await", !.verifyCalled = TRUE,
                                   !.verified = TRUE, !.lookups = seen]

\* From entry to the first await's result: header, verifyAccessToken, isBlacklisted.
authStage1(e, c, up, h, t) ==
    LET base == [pc |-> "done", header |-> h, verifyCalled |-> FALSE, verified |-> FALSE,
                 lookups |-> <<>>, responses |-> <<>>, nextCalls |-> 0, user |-> "unset"]
    IN  IF tokenMissing(h)
        THEN [base EXCEPT !.responses = <<Response("TOKEN_REQUIRED")>>]
        ELSE IF ~verifyAccessToken(e, h.tok, t)
        THEN [base EXCEPT !.verifyCalled = TRUE,
                          !.responses = <<Response("INVALID_TOKEN")>>]
        ELSE LET b == isBlacklisted(c, up, h.tok, t)
                 seen == <<[fn |-> "isBlacklisted", result |-> b]>>
             IN  IF b
                 THEN [base EXCEPT !.verifyCalled = TRUE, !.verified = TRUE,
                                   !.lookups = seen,
                                   !.responses = <<Response("TOKEN_REVOKED")>>]
                 ELSE [base EXCEPT !.pc = "await", !.verifyCalled = TRUE,
                                   !.verified = TRUE, !.lookups = seen]

\* Mutant: the subject-wide lookup is skipped.
authStage2_NoUserLookup(c, up, r, t) ==
    [r EXCEPT !.pc = "done", !.user = r.header.tok.sub, !.nextCalls = r.nextCalls + 1]

\* Mutant: the subject marker revokes only the tokens issued before it was written.
authStage2_IssuedBefore(c, up, r, t) ==
    LET u == /\ isUserBlacklisted(c, up, r.header.tok.sub, t)
             /\ \E x \in c : x.key = userKey(r.header.tok.sub) /\ r.header.tok.iat < x.at
        seen == Append(r.lookups, [fn |-> "isUserBlacklisted", userId |-> r.header.tok.sub,
                                   result |-> u])
    IN  IF u
        THEN [r EXCEPT !.pc = "done", !.lookups = seen,
                       !.responses = <<Response("USER_TOKENS_REVOKED")>>]
        ELSE [r EXCEPT !.pc = "done", !.lookups = seen,
                       !.user = r.header.tok.sub, !.nextCalls = r.nextCalls + 1]

\* From the first await's result to the end: isUserBlacklisted(decoded.sub), next().
authStage2(c, up, r, t) ==
    LET u == isUserBlacklisted(c, up, r.header.tok.sub, t)
        seen == Append(r.lookups, [fn |-> "isUserBlacklisted", userId |-> r.header.tok.sub,
                                   result |-> u])
    IN  IF u
        THEN [r EXCEPT !.pc = "done", !.lookups = seen,
                       !.responses = <<Response("USER_TOKENS_REVOKED")>>]
        ELSE [r EXCEPT !.pc = "done", !.lookups = seen,
                       !.user = r.header.tok.sub, !.nextCalls = r.nextCalls + 1]

(***************************************************************************)
(* Observation: what was in the store when a lookup read it.               *)
(***************************************************************************)
MarkerPresent(c, key, t) ==
    \E x \in c : x.key = key /\ x.val = "true" /\ t >= x.at /\ t < x.at + x.ttl

\* reached: the request got to that stage; marker: the stage's key was in the
\* store then; up: Redis was reachable then; seq: how many revocation calls had
\* completed by then.
NoObs == [reached |-> FALSE, marker |-> FALSE, up |-> FALSE, seq |-> 0]
Obs(c, up, key, t, n) ==
    [reached |-> TRUE, marker |-> MarkerPresent(c, key, t), up |-> up, seq |-> n]

(***************************************************************************)
(* Route decorators and the registrar (registerRoutes).  A middleware is   *)
(* known by its name; a path is a sequence of string segments.             *)
(***************************************************************************)
Classes == {"AuthController", "HealthController"}
\* the class the route specification applies every kind of decorator to
FullyDecorated == {"AuthController"}
HandlerNames == {"login"}
Methods == {"get", "post"}
RoutePaths == {<<"/login">>}
\* options.middlewares of Controller() and of a route decorator
OptionMiddlewares == {<<>>, <<"m1">>}
\* the arguments of UseMiddleware on a class and on a method (Auth())
ClassMiddlewares == {"authenticateJWT"}
MethodMiddlewares == {"authenticateJWT"}

ControllerPrefix(c) == IF c = "AuthController" THEN <<"/auth">> ELSE <<"/health">>
ApiPrefix == <<"/", "api">>

\* Reflect.getMetadata(METADATA_KEYS.CONTROLLER, target) before Controller() ran
NoController == [defined |-> FALSE, prefix |-> <<>>, middlewares |-> <<>>,
                 isSystemRoute |-> FALSE]
\* RateLimitOptions {windowMs, max}; NoOptions where RateLimit() was not applied
NoOptions == [windowMs |-> 0, max |-> 0]
StrictLimit == [windowMs |-> 1500, max |-> 1]
RateLimitChoices == [windowMs : {1500}, max : {1, 2}]
NoMetadata == [controller |-> NoController, routes |-> <<>>,
               validate |-> {}, rateLimit |-> {},
               rateLimitOptions |-> [h \in HandlerNames |-> NoOptions]]

\* Controller(prefix, options): the ControllerMetadata it defines
Controller(ctrlPrefix, middlewares, isSystemRoute) ==
    [defined |-> TRUE, prefix |-> ctrlPrefix, middlewares |-> middlewares,
     isSystemRoute |-> isSystemRoute]

\* registerController: controllerRegistry.add (a Set keeps insertion order)
registerController(reg, c) ==
    IF \E k \in 1..Len(reg) : reg[k] = c THEN reg ELSE Append(reg, c)

\* createRouteDecorator(method)(path, options): the RouteMetadata it pushes
createRouteDecorator(method, path, middlewares, handlerName) ==
    [method |-> method, path |-> path, middlewares |-> middlewares,
     handlerName |-> handlerName]

\* routes.find((r) => r.handlerName === propertyKey): its index, 0 if none
findRoute(routes, propertyKey) ==
    IF \E k \in 1..Len(routes) : routes[k].handlerName = propertyKey
    THEN CHOOSE k \in 1..Len(routes) :
            /\ routes[k].handlerName = propertyKey
            /\ \A j \in 1..(k - 1) : routes[j].handlerName # propertyKey
    ELSE 0

\* UseMiddleware(mw) as a method decorator: prepends to the route found
UseMiddlewareOnMethod(m, propertyKey, mw) ==
    LET k == findRoute(m.routes, propertyKey)
    IN  IF k = 0 THEN m
        ELSE [m EXCEPT !.routes[k].middlewares = <<mw>> \o @]

\* UseMiddleware(mw) as a class decorator: prepends to the controller's list
UseMiddlewareOnClass(m, mw) ==
    IF m.controller.defined
    THEN [m EXCEPT !.controller.middlewares = <<mw>> \o @]
    ELSE m

\* The elements of a chain handed to router[method](path, ...)
RateLimitGuard == [kind |-> "rateLimit", name |-> "createStrictRateLimiter"]
ValidationGuard == [kind |-> "validate", name |-> "validate"]
Middleware(name) == [kind |-> "middleware", name |-> name]
wrapHandler(handlerName) == [kind |-> "handler", name |-> handlerName]
Named(names) == [k \in 1..Len(names) |-> Middleware(names[k])]

\* Mutant: validation is placed ahead of the rate-limit guard, and the
\* route-level list ahead of the controller-level list.
buildMiddlewares_Reordered(m, route) ==
    LET validationMiddlewares ==
            IF route.handlerName \in m.validate THEN <<ValidationGuard>> ELSE <<>>
        rateLimitMiddlewares ==
            IF route.handlerName \in m.rateLimit THEN <<RateLimitGuard>> ELSE <<>>
    IN  validationMiddlewares \o rateLimitMiddlewares
            \o Named(route.middlewares) \o Named(m.controller.middlewares)

\* buildMiddlewares(controllerInstance, route, metadata)
buildMiddlewares(m, route) ==
    LET validationMiddlewares ==
            IF route.handlerName \in m.validate THEN <<ValidationGuard>> ELSE <<>>
        rateLimitMiddlewares ==
            IF route.handlerName \in m.rateLimit THEN <<RateLimitGuard>> ELSE <<>>
    IN  rateLimitMiddlewares \o validationMiddlewares
            \o Named(m.controller.middlewares) \o Named(route.middlewares)

\* registerRoute: the entry router[route.method](route.path, ...) adds.  The
\* field decl keeps what the declarations said when the entry was built.
registerRoute(m, route) ==
    [method |-> route.method, path |-> route.path,
     chain |-> Append(buildMiddlewares(m, route), wrapHandler(route.handlerName)),
     limiter |-> IF route.handlerName \in m.rateLimit
                 THEN m.rateLimitOptions[route.handlerName]
                 ELSE NoOptions,
     decl |-> [rateLimit |-> route.handlerName \in m.rateLimit,
               validate |-> route.handlerName \in m.validate,
               controllerMiddlewares |-> m.controller.middlewares,
               routeMiddlewares |-> route.middlewares,
               handlerName |-> route.handlerName]]

\* Mutant: a router is built whether or not the controller metadata resolves.
createRouterForController_NoCheck(m) ==
    [found |-> TRUE,
     routes |-> [k \in 1..Len(m.routes) |-> registerRoute(m, m.routes[k])]]

\* createRouterForController: null (<<>> with found FALSE) without metadata
createRouterForController(m) ==
    IF ~m.controller.defined
    THEN [found |-> FALSE, routes |-> <<>>]
    ELSE [found |-> TRUE,
          routes |-> [k \in 1..Len(m.routes) |-> registerRoute(m, m.routes[k])]]

\* Mutant: every controller receives the API prefix.
fullPath_AlwaysPrefixed(ctrl) == ApiPrefix \o ctrl.prefix

\* mountRouter: app.use(fullPath, router)
fullPath(ctrl) ==
    IF ctrl.isSystemRoute THEN ctrl.prefix ELSE ApiPrefix \o ctrl.prefix

mountRouter(c, m, router) ==
    [class |-> c, path |-> fullPath(m.controller),
     isSystemRoute |-> m.controller.isSystemRoute, routes |-> router.routes]

\* registerRoutes(app): one router per registered controller with metadata
registerRoutes(meta, reg) ==
    LET built == [k \in 1..Len(reg) |->
                    [class |-> reg[k], router |-> createRouterForController(meta[reg[k]])]]
        kept == SelectSeq(built, LAMBDA b : b.router.found)
        routers == [k \in 1..Len(kept) |->
                      mountRouter(kept[k].class, meta[kept[k].class], kept[k].router)]
    IN  [done |-> TRUE, routers |-> routers,
         apiRoutes |-> SelectSeq([k \in 1..Len(routers) |-> routers[k]],
                                 LAMBDA r : ~r.isSystemRoute),
         systemRoutes |-> SelectSeq([k \in 1..Len(routers) |-> routers[k]],
                                    LAMBDA r : r.isSystemRoute)]

NotMounted == [done |-> FALSE, routers |-> <<>>, apiRoutes |-> <<>>,
               systemRoutes |-> <<>>]
NoOutcome == [how |-> "none", error |-> "none"]
NoTrace == [dispatched |-> FALSE, method |-> "", url |-> <<>>, router |-> 0, route |-> 0,
            log |-> <<>>, status |-> "none", outcome |-> NoOutcome, forwarded |-> <<>>,
            responder |-> "none", code |-> "none"]

\* What a route handler does with a request: it completes after answering, it
\* throws synchronously, or it returns a promise that rejects.  The values it
\* may fail with: an application exception (which carries its own statusCode),
\* a ZodError, a database error (string code "P2002"), a plain Error, an error
\* whose code property is a number, and undefined (throw undefined or
\* Promise.reject() without a reason).
Errors == {"AppException", "ZodError", "DatabaseError", "Error", "NumericCodeError",
           "undefined"}
Completes == [how |-> "returns", error |-> "none"]
HandlerOutcomes == {Completes} \cup [how : {"throws", "rejects"}, error : Errors]

\* The function wrapHandler returns, by the arguments of its calls of next:
\* try { await handler.call(...) } catch (error) { next(error) }
wrappedHandler(outcome) ==
    IF outcome.how \in {"throws", "rejects"} THEN <<outcome.error>> ELSE <<>>

\* errorHandler(err, req, res, _next): the status it answers with, or
\* "TypeError" when err.code?.startsWith is called on a number.
errorHandler(err) ==
    CASE err = "AppException" -> "err.statusCode"
      [] err = "ZodError" -> "400"
      [] err = "NumericCodeError" -> "TypeError"
      [] err = "DatabaseError" -> "500"
      [] OTHER -> "500"

\* Express after next(err) at the end of a route's chain: a falsy err is
\* next() without an error, so the request goes on to the 404 responder
\* installed after the routes; any other err goes to errorHandler, and an
\* exception errorHandler throws is answered by Express's final handler.
afterNext(err) ==
    IF err = "undefined"
    THEN [responder |-> "notFound", code |-> "404"]
    ELSE IF errorHandler(err) = "TypeError"
         THEN [responder |-> "finalhandler", code |-> "500"]
         ELSE [responder |-> "errorHandler", code |-> errorHandler(err)]

\* The answer to a request whose chain was walked up to the handler.
handlerResponse(outcome) ==
    IF wrappedHandler(outcome) = <<>>
    THEN IF outcome.how = "returns"
         THEN [status |-> "handled", responder |-> "handler", code |-> "200"]
         ELSE [status |-> "failed", responder |-> "none", code |-> "none"]
    ELSE [status |-> "failed",
          responder |-> afterNext(wrappedHandler(outcome)[1]).responder,
          code |-> afterNext(wrappedHandler(outcome)[1]).code]

\* The largest number of routes any mounted router holds.
MaxRouteIndex(m) ==
    IF Len(m.routers) = 0 THEN 0
    ELSE CHOOSE n \in {Len(m.routers[i].routes) : i \in 1..Len(m.routers)} :
            \A i \in 1..Len(m.routers) : Len(m.routers[i].routes) <= n

\* Express dispatch: the routers are tried in the order app.use mounted them,
\* the routes of a router in the order they were added; the first route whose
\* method and full path match takes the request.  <<0, 0>> when none does.
matches(m, i, j, method, url) ==
    /\ m.routers[i].routes[j].method = method
    /\ m.routers[i].path \o m.routers[i].routes[j].path = url

dispatch(m, method, url) ==
    LET hits == {ij \in (1..Len(m.routers)) \X (1..MaxRouteIndex(m)) :
                    /\ ij[2] <= Len(m.routers[ij[1]].routes)
                    /\ matches(m, ij[1], ij[2], method, url)}
    IN  IF hits = {} THEN <<0, 0>>
        ELSE CHOOSE ij \in hits :
                \A other \in hits :
                    \/ ij[1] < other[1]
                    \/ (ij[1] = other[1] /\ ij[2] <= other[2])

\* What an element answers when it does not call next()
rejection(element) ==
    CASE element.kind = "rateLimit" -> "429"
      [] element.kind = "validate" -> "400"
      [] OTHER -> "responded"

\* Mutant: an element that answers the request does not stop the chain.
walk_NoShortCircuit(chain, stop) ==
    IF stop = 0
    THEN [log |-> chain, status |-> "handled"]
    ELSE [log |-> chain, status |-> rejection(chain[stop])]

\* One request walking a chain: the elements run in chain order, each one
\* invoked only after its predecessor called next(); element number stop
\* answers the request itself (stop = 0: every element calls next()).
walk(chain, stop) ==
    IF stop = 0
    THEN [log |-> chain, status |-> "handled"]
    ELSE [log |-> SubSeq(chain, 1, stop), status |-> rejection(chain[stop])]

(***************************************************************************)
(* The per-route rate limiters.  buildMiddlewares calls                    *)
(* createStrictRateLimiter once for every route that carries RateLimit     *)
(* options, so every such route owns a limiter with a hit store of its     *)
(* own.  The store keeps, per key, the hits of the key's current window    *)
(* and the time (in milliseconds) that window ends.                        *)
(***************************************************************************)
Ips == {"ip1", "ip2"}

\* Mutant: every caller is counted under one key.
keyGenerator_Constant(ip) == "ip1"

\* the default keyGenerator: the caller's address, req.ip
keyGenerator(ip) == ip

NoClient == [totalHits |-> 0, resetTime |-> 0]
NoWindow == [started |-> FALSE, end |-> 0, passed |-> 0]
NoHit == [counted |-> FALSE, order |-> <<>>, route |-> <<0, 0>>, ip |-> "",
          passedBefore |-> 0, status |-> "none", retryAfter |-> 0]
NoLimiters == [app |-> [key \in Ips |-> NoClient], store |-> <<>>, windows |-> <<>>,
               seen |-> NoHit, requests |-> 0]

LimitedRoutes(m) ==
    {ij \in (1..Len(m.routers)) \X (1..MaxRouteIndex(m)) :
        /\ ij[2] <= Len(m.routers[ij[1]].routes)
        /\ m.routers[ij[1]].routes[ij[2]].limiter # NoOptions}

\* The limiters registerRoutes creates: an empty store per limited route.
\* app is the store of the application-wide limiter, which no request has
\* reached before the routes are mounted, order is history: the limiters the
\* last request was evaluated by, in the order they ran.
\* windows is history: per route and caller address, the caller's current
\* window on that route and the number of its requests let through in it;
\* requests counts the requests the limiters have seen.
createLimiters(m) ==
    [app |-> [key \in Ips |-> NoClient],
     store |-> [ij \in LimitedRoutes(m) |-> [key \in Ips |-> NoClient]],
     windows |-> [ij \in LimitedRoutes(m) |-> [ip \in Ips |-> NoWindow]],
     seen |-> NoHit, requests |-> 0]

\* store.increment(key): a key without a running window starts one
increment(client, nowMs, windowMs) ==
    IF client.totalHits = 0 \/ client.resetTime <= nowMs
    THEN [totalHits |-> 1, resetTime |-> nowMs + windowMs]
    ELSE [client EXCEPT !.totalHits = @ + 1]

\* Math.ceil(windowMs / 1000), the retryAfter of the 429 message
retryAfter(windowMs) == (windowMs + 999) \div 1000

\* history: the caller's window at a request, restarted once it has ended
windowAt(w, nowMs, windowMs) ==
    IF ~w.started \/ w.end <= nowMs
    THEN [started |-> TRUE, end |-> nowMs + windowMs, passed |-> 0]
    ELSE w

(***************************************************************************)
(* The sessions table and AuthService's statements on it.  A row holds the *)
(* access token and the refresh token of one login; id is the primary key. *)
(* The relation to the users table is the userId column: every user of the *)
(* model exists and is active.                                             *)
(***************************************************************************)
Session(id, userId, token, refreshToken, expiresAt) ==
    [id |-> id, userId |-> userId, token |-> token, refreshToken |-> refreshToken,
     expiresAt |-> expiresAt]

\* login: db.insert(sessions).values({userId, token, refreshToken, expiresAt})
insertSession(rows, row) == rows \cup {row}

\* refreshToken: db.query.sessions.findFirst({where: eq(sessions.refreshToken, r)});
\* refresh_token is UNIQUE, so at most one row matches.
findByRefreshToken(rows, r) == {x \in rows : x.refreshToken = r}

\* refreshToken: db.update(sessions).set({token, expiresAt}).where(eq(sessions.id, id))
updateSessionToken(rows, id, token, expiresAt) ==
    {IF x.id = id THEN [x EXCEPT !.token = token, !.expiresAt = expiresAt] ELSE x : x \in rows}

\* logout: db.delete(sessions).where(eq(sessions.token, token))
deleteByToken(rows, token) == {x \in rows : x.token # token}

\* logoutAllDevices: db.delete(sessions).where(eq(sessions.userId, userId))
deleteByUser(rows, userId) == {x \in rows : x.userId # userId}

\* An AuthService call between two of its awaits.
IdleCall == [pc |-> "idle", token |-> NullPayload, sessionId |-> 0, userId |-> "",
             stored |-> FALSE, after |-> {}]
NoCalls == [refresh |-> IdleCall, logout |-> IdleCall]
NoSessionLog == [logins |-> {}, loggedOut |-> {}, refreshes |-> 0]

(***************************************************************************)
(* The authorization specification.                                        *)
(***************************************************************************)
Presentable == issued \cup CraftedTokens
Headers == {NoHeader, BearerEmpty} \cup {Bearer(t) : t \in Presentable}
ExpiresInArgs == {NoArg, 4}
TtlArgs == {2}

\* The state of a fresh process, apart from its environment.
Fresh ==
    /\ now = 0
    /\ issued = {}
    /\ cache = {}
    /\ cacheUp = TRUE
    /\ req = Idle
    /\ revokedTokens = {}
    /\ revokedUsers = {}
    /\ ops = 0
    /\ metadata = [c \in Classes |-> NoMetadata]
    /\ registry = <<>>
    /\ mounted = NotMounted
    /\ late = 0
    /\ authDeclared = {}
    /\ trace = NoTrace
    /\ rateLimiters = NoLimiters
    /\ sessions = {}
    /\ calls = NoCalls
    /\ sessionLog = NoSessionLog

\* The state once env.ts has accepted the environment.
Init ==
    /\ env \in EnvChoices
    /\ last = [op |-> "boot"]
    /\ Fresh

Tick ==
    /\ now < MaxTime
    /\ req = Idle
    /\ now' = now + 1
    /\ last' = [op |-> "tick"]
    /\ UNCHANGED <<env, issued, cache, cacheUp, req, revokedTokens, revokedUsers, ops>>
    /\ UNCHANGED <<routeVars, sessionVars>>

CacheFail ==
    /\ cacheUp
    /\ cacheUp' = FALSE
    /\ last' = [op |-> "cacheFail"]
    /\ UNCHANGED <<env, now, issued, cache, req, revokedTokens, revokedUsers, ops>>
    /\ UNCHANGED <<routeVars, sessionVars>>

CacheRecover ==
    /\ ~cacheUp
    /\ cacheUp' = TRUE
    /\ last' = [op |-> "cacheRecover"]
    /\ UNCHANGED <<env, now, issued, cache, req, revokedTokens, revokedUsers, ops>>
    /\ UNCHANGED <<routeVars, sessionVars>>

IssueAccessToken(u, limit) ==
    /\ Cardinality(issued) < limit
    /\ req = Idle
    /\ LET tok == generateAccessToken(env, AuthenticatedUser(u), now, Cardinality(issued) + 1)
       IN  /\ issued' = issued \cup {tok}
           /\ last' = [op |-> "generateAccessToken", user |-> u, token |-> tok]
    /\ UNCHANGED <<env, now, cache, cacheUp, req, revokedTokens, revokedUsers, ops>>
    /\ UNCHANGED <<routeVars, sessionVars>>

GenerateAccessToken(u) == IssueAccessToken(u, MaxTokens)

IssueRefreshToken(u, limit) ==
    /\ Cardinality(issued) < limit
    /\ req = Idle
    /\ LET tok == generateRefreshToken(env, u, now, Cardinality(issued) + 1)
       IN  /\ issued' = issued \cup {tok}
           /\ last' = [op |-> "generateRefreshToken", user |-> u, token |-> tok]
    /\ UNCHANGED <<env, now, cache, cacheUp, req, revokedTokens, revokedUsers, ops>>
    /\ UNCHANGED <<routeVars, sessionVars>>

GenerateRefreshToken(u) == IssueRefreshToken(u, MaxTokens)

\* One call of addToBlacklist(tok, expiresIn) and what it leaves in the cache.
BlacklistCall(tok, expiresIn) ==
    /\ ops < MaxOps
    /\ LET r == addToBlacklist(cache, cacheUp, tok, expiresIn, now)
       IN  /\ cache' = r.cache
           /\ last' = [op |-> "addToBlacklist", token |-> tok, expiresIn |-> expiresIn,
                       at |-> now, up |-> cacheUp, threw |-> r.threw,
                       setCalled |-> r.setCalled, stored |-> r.stored,
                       key |-> r.key, ttl |-> r.ttl]
           /\ revokedTokens' =
                IF r.threw \/ ~r.stored THEN revokedTokens
                ELSE {x \in revokedTokens : x.token.jti # tok.jti}
                        \cup {[token |-> tok, expiresIn |-> expiresIn, at |-> now,
                               ttl |-> r.ttl, seq |-> ops + 1]}
    /\ ops' = ops + 1
    /\ UNCHANGED <<env, now, issued, cacheUp, req, revokedUsers>>
    /\ UNCHANGED routeVars

AddToBlacklist(tok, expiresIn) ==
    /\ BlacklistCall(tok, expiresIn)
    /\ UNCHANGED sessionVars

UserCall(fn, r, u, ttlArg) ==
    /\ cache' = r.cache
    /\ last' = [op |-> fn, userId |-> u, expiresIn |-> ttlArg, at |-> now, up |-> cacheUp,
                threw |-> r.threw, setCalled |-> r.setCalled, stored |-> r.stored,
                key |-> r.key, ttl |-> r.ttl]
    /\ revokedUsers' =
         IF ~r.stored THEN revokedUsers
         ELSE {x \in revokedUsers : x.userId # u}
                 \cup {[userId |-> u, at |-> now, ttl |-> ttlArg, via |-> fn, seq |-> ops + 1]}
    /\ ops' = ops + 1
    /\ UNCHANGED <<env, now, issued, cacheUp, req, revokedTokens>>
    /\ UNCHANGED routeVars

BlacklistUserTokens(u, ttl) ==
    /\ ops < MaxOps
    /\ UserCall("blacklistUserTokens", blacklistUserTokens(cache, cacheUp, u, ttl, now), u, ttl)
    /\ UNCHANGED sessionVars

LogoutAllDevices(u) ==
    /\ ops < MaxOps
    /\ UserCall("logoutAllDevices", logoutAllDevices(env, cache, cacheUp, u, now), u,
                getRefreshExpiresInSeconds(env))
    /\ sessions' = deleteByUser(sessions, u)
    /\ UNCHANGED <<calls, sessionLog>>

Finished(r, o1, o2) ==
    [op |-> "authenticateJWT", header |-> r.header, verifyCalled |-> r.verifyCalled,
     verified |-> r.verified, lookups |-> r.lookups, responses |-> r.responses,
     nextCalls |-> r.nextCalls, user |-> r.user, obs1 |-> o1, obs2 |-> o2]

AuthStart(h) ==
    /\ req = Idle
    /\ LET r == authStage1(env, cache, cacheUp, h, now)
           o1 == IF tokenMissing(h) THEN NoObs
                 ELSE Obs(cache, cacheUp, <<"blacklist:">> \o h.tok.jti, now, ops)
       IN  IF r.pc = "done"
           THEN /\ last' = Finished(r, o1, NoObs)
                /\ req' = Idle
           ELSE /\ last' = [op |-> "authenticateJWT:await"]
                /\ req' = [r EXCEPT !.pc = "await"] @@ [obs1 |-> o1]
    /\ UNCHANGED <<env, now, issued, cache, cacheUp, revokedTokens, revokedUsers, ops>>
    /\ UNCHANGED <<routeVars, sessionVars>>

AuthResume ==
    /\ req # Idle
    /\ LET r == authStage2(cache, cacheUp, req, now)
           o2 == Obs(cache, cacheUp, <<"blacklist:", "user:", req.header.tok.sub>>, now, ops)
       IN  /\ last' = Finished(r, req.obs1, o2)
           /\ req' = Idle
    /\ UNCHANGED <<env, now, issued, cache, cacheUp, revokedTokens, revokedUsers, ops>>
    /\ UNCHANGED <<routeVars, sessionVars>>

Next ==
    \/ Tick
    \/ CacheFail
    \/ CacheRecover
    \/ \E u \in Subjects : GenerateAccessToken(u)
    \/ \E u \in Subjects : GenerateRefreshToken(u)
    \/ \E tok \in Presentable, e \in ExpiresInArgs : AddToBlacklist(tok, e)
    \/ \E u \in Users, ttl \in TtlArgs : BlacklistUserTokens(u, ttl)
    \/ \E u \in Subjects : LogoutAllDevices(u)
    \/ \E h \in Headers : AuthStart(h)
    \/ AuthResume

Spec == Init /\ [][Next]_vars

(***************************************************************************)
(* The JWTService specification: tokens are signed, the clock advances,    *)
(* and callers hand tokens to verifyAccessToken and verifyRefreshToken.    *)
(***************************************************************************)
(***************************************************************************)
(* The boot specification: env.ts parses process.env when the process      *)
(* starts and exits on a schema failure; tokens are issued afterwards.     *)
(***************************************************************************)
InitBoot ==
    /\ env \in RawEnvChoices
    /\ last = [op |-> "start"]
    /\ Fresh

Running == last.op \notin {"start", "exit"}

\* env.ts: safeParse, then process.exit(1) unless it succeeded
LoadEnv ==
    /\ last.op = "start"
    /\ last' = [op |-> IF envSchema(env) THEN "boot" ELSE "exit"]
    /\ UNCHANGED <<env, now, issued, cache, cacheUp, req, revokedTokens, revokedUsers, ops>>
    /\ UNCHANGED <<routeVars, sessionVars>>

NextBoot ==
    \/ LoadEnv
    \/ \E u \in Users : Running /\ IssueAccessToken(u, MaxIssued)
    \/ \E u \in Users : Running /\ IssueRefreshToken(u, MaxIssued)

SpecBoot == InitBoot /\ [][NextBoot]_vars

JwtGenerateAccessToken(u) == IssueAccessToken(u, MaxIssued)
JwtGenerateRefreshToken(u) == IssueRefreshToken(u, MaxIssued)

VerifyCall(fn, tok, ok) ==
    /\ last' = [op |-> fn, token |-> tok, at |-> now, ok |-> ok]
    /\ UNCHANGED <<env, now, issued, cache, cacheUp, req, revokedTokens, revokedUsers, ops>>
    /\ UNCHANGED <<routeVars, sessionVars>>

VerifyAccessToken(tok) ==
    VerifyCall("verifyAccessToken", tok, verifyAccessToken(env, tok, now))

VerifyRefreshToken(tok) ==
    VerifyCall("verifyRefreshToken", tok, verifyRefreshToken(env, tok, now))

NextJWT ==
    \/ Tick
    \/ \E u \in Subjects : JwtGenerateAccessToken(u)
    \/ \E u \in Subjects : JwtGenerateRefreshToken(u)
    \/ \E tok \in Presentable : VerifyAccessToken(tok)
    \/ \E tok \in Presentable : VerifyRefreshToken(tok)

SpecJWT == Init /\ [][NextJWT]_vars

(***************************************************************************)
(* The decoding specification: decodeToken applied to issued tokens at any *)
(* time, to tokens signed by others and to strings that are no tokens.     *)
(***************************************************************************)
DecodeToken(tok) ==
    /\ last' = [op |-> "decodeToken", token |-> tok, at |-> now,
                threw |-> decodeTokenThrows(tok), result |-> decodeToken(tok)]
    /\ UNCHANGED <<env, now, issued, cache, cacheUp, req, revokedTokens, revokedUsers, ops>>
    /\ UNCHANGED <<routeVars, sessionVars>>

NextDecode ==
    \/ Tick
    \/ \E u \in Subjects : JwtGenerateAccessToken(u)
    \/ \E u \in Subjects : JwtGenerateRefreshToken(u)
    \/ \E tok \in Presentable \cup {MalformedToken} : DecodeToken(tok)

SpecDecode == Init /\ [][NextDecode]_vars

(***************************************************************************)
(* The revocation specification: one token is issued and revoked through   *)
(* addToBlacklist, without or with the expiresIn argument, and requests    *)
(* bear it as the clock advances.                                          *)
(***************************************************************************)
\* addToBlacklist(token) as logout calls it, and addToBlacklist(token, 1).
ShortExpiresInArgs == {NoArg, 1}

NextRevoke ==
    \/ Tick
    \/ \E u \in Subjects : GenerateAccessToken(u)
    \/ \E tok \in Presentable, e \in ShortExpiresInArgs : AddToBlacklist(tok, e)
    \/ \E h \in Headers : AuthStart(h)
    \/ AuthResume

SpecRevoke == Init /\ [][NextRevoke]_vars

(***************************************************************************)
(* The session specification: login, refreshToken and logout of            *)
(* AuthService, each suspended at its awaits so that a refresh and a       *)
(* logout interleave, over a cache that fails and recovers.                *)
(***************************************************************************)
MaxLogins == 1
MaxRefreshes == 2

\* login(data) with valid credentials of user u: both tokens, then the row.
Login(u) ==
    /\ Cardinality(sessionLog.logins) < MaxLogins
    /\ LET k == Cardinality(issued)
           accessToken == generateAccessToken(env, AuthenticatedUser(u), now, k + 1)
           refreshToken == generateRefreshToken(env, u, now, k + 2)
           row == Session(Cardinality(sessionLog.logins) + 1, u, accessToken, refreshToken,
                          now + getExpiresInSeconds(env))
       IN  /\ issued' = issued \cup {accessToken, refreshToken}
           /\ sessions' = insertSession(sessions, row)
           /\ sessionLog' = [sessionLog EXCEPT !.logins =
                                @ \cup {[accessToken |-> accessToken,
                                         refreshToken |-> refreshToken]}]
           /\ last' = [op |-> "login", user |-> u, accessToken |-> accessToken,
                       refreshToken |-> refreshToken]
    /\ UNCHANGED <<env, now, cache, cacheUp, req, revokedTokens, revokedUsers, ops, calls>>
    /\ UNCHANGED routeVars

\* The result of a refreshToken call.  after: the logouts that had completed
\* when the call was made.
Refreshed(r, threw, accessToken, after) ==
    [op |-> "refreshToken", refreshToken |-> r, threw |-> threw,
     accessToken |-> accessToken, after |-> after, at |-> now]

\* refreshToken(r) up to the result of findFirst: verifyRefreshToken throws,
\* or no row stores r (InvalidCredentialsException), or the row is found.
RefreshStart(r) ==
    /\ calls.refresh.pc = "idle"
    /\ sessionLog.refreshes < MaxRefreshes
    /\ LET found == findByRefreshToken(sessions, r)
       IN  IF ~verifyRefreshToken(env, r, now) \/ found = {}
           THEN /\ last' = Refreshed(r, TRUE, NullPayload, sessionLog.loggedOut)
                /\ calls' = calls
           ELSE /\ last' = [op |-> "refreshToken:await"]
                /\ calls' = [calls EXCEPT !.refresh =
                               [IdleCall EXCEPT !.pc = "found", !.token = r,
                                   !.sessionId = (CHOOSE x \in found : TRUE).id,
                                   !.userId = (CHOOSE x \in found : TRUE).userId,
                                   !.after = sessionLog.loggedOut]]
    /\ sessionLog' = [sessionLog EXCEPT !.refreshes = @ + 1]
    /\ UNCHANGED <<env, now, issued, cache, cacheUp, req, revokedTokens, revokedUsers, ops,
                   sessions>>
    /\ UNCHANGED routeVars

\* refreshToken(r) from the row found: the new access token, the update of
\* the row by its id, the return.
RefreshFinish ==
    /\ calls.refresh.pc = "found"
    /\ LET c == calls.refresh
           newAccessToken == generateAccessToken(env, AuthenticatedUser(c.userId), now,
                                                 Cardinality(issued) + 1)
       IN  /\ issued' = issued \cup {newAccessToken}
           /\ sessions' = updateSessionToken(sessions, c.sessionId, newAccessToken,
                                             now + getExpiresInSeconds(env))
           /\ last' = Refreshed(c.token, FALSE, newAccessToken, c.after)
    /\ calls' = [calls EXCEPT !.refresh = IdleCall]
    /\ UNCHANGED <<env, now, cache, cacheUp, req, revokedTokens, revokedUsers, ops, sessionLog>>
    /\ UNCHANGED routeVars

\* logout(token) up to the result of addToBlacklist(token): its rejection is
\* the rejection of logout.
LogoutStart(tok) ==
    /\ calls.logout.pc = "idle"
    /\ BlacklistCall(tok, NoArg)
    /\ calls' = IF last'.threw THEN calls
                ELSE [calls EXCEPT !.logout =
                        [IdleCall EXCEPT !.pc = "marked", !.token = tok,
                                         !.stored = last'.stored]]
    /\ UNCHANGED <<sessions, sessionLog>>

\* logout(token) from there: the delete of the row that stores the token,
\* the return.
LogoutFinish ==
    /\ calls.logout.pc = "marked"
    /\ LET c == calls.logout
       IN  /\ sessions' = deleteByToken(sessions, c.token)
           /\ sessionLog' = [sessionLog EXCEPT !.loggedOut = @ \cup {c.token}]
           /\ last' = [op |-> "logout", token |-> c.token, threw |-> FALSE,
                       stored |-> c.stored, at |-> now]
    /\ calls' = [calls EXCEPT !.logout = IdleCall]
    /\ UNCHANGED <<env, now, issued, cache, cacheUp, req, revokedTokens, revokedUsers, ops>>
    /\ UNCHANGED routeVars

NextSession ==
    \/ Tick
    \/ CacheFail
    \/ CacheRecover
    \/ \E u \in Subjects : Login(u)
    \/ \E r \in issued : RefreshStart(r)
    \/ RefreshFinish
    \/ \E tok \in issued : LogoutStart(tok)
    \/ LogoutFinish
    \/ \E u \in Subjects : LogoutAllDevices(u)

SpecSession == Init /\ [][NextSession]_vars

(***************************************************************************)
(* The scope specification: the two kinds of marker are written, for       *)
(* issued tokens and for a token whose jti claim was chosen by its author. *)
(***************************************************************************)
\* A decodable token with jti 'user:u1' (addToBlacklist does not verify).
CraftedJtiToken == Token(TRUE, "attacker", "access", "u2", <<"user:", "u1">>, 0, 2)
Decodable == Presentable \cup {CraftedJtiToken}

NextScope ==
    \/ Tick
    \/ \E u \in Subjects : GenerateAccessToken(u)
    \/ \E tok \in Decodable, e \in ExpiresInArgs : AddToBlacklist(tok, e)
    \/ \E u \in Users, ttl \in TtlArgs : BlacklistUserTokens(u, ttl)

SpecScope == Init /\ [][NextScope]_vars

(***************************************************************************)
(* requirePermissions / requireRoles.  req.user is what authenticateJWT    *)
(* stored: the payload verifyAccessToken returned, or nothing.             *)
(***************************************************************************)
PermissionNames == {"read", "write"}
RoleNames == {"user", "admin"}

\* req.user undefined
NoReqUser == [present |-> FALSE, lists |-> FALSE, roles |-> {}, permissions |-> {}]
\* req.user = decoded; lists is FALSE when the payload has no roles and
\* permissions arrays (user.permissions is undefined)
reqUser(tok) ==
    [present |-> TRUE, lists |-> tok.profile # NoProfile,
     roles |-> tok.profile.roles, permissions |-> tok.profile.permissions]

\* requirePermissions(permissions)(req, res, next): "next", the status of the
\* response, or "TypeError" when user.permissions.includes is evaluated on undefined
requirePermissions(permissions, user) ==
    IF ~user.present THEN "401"
    ELSE IF permissions = {} THEN "next"
    ELSE IF ~user.lists THEN "TypeError"
    ELSE IF \A p \in permissions : p \in user.permissions THEN "next"
    ELSE "403"

\* Mutant: every required role must be held.
requireRoles_Every(roles, user) ==
    IF ~user.present THEN "401"
    ELSE IF roles = {} THEN "next"
    ELSE IF ~user.lists THEN "TypeError"
    ELSE IF \A r \in roles : r \in user.roles THEN "next"
    ELSE "403"

\* requireRoles(roles)(req, res, next)
requireRoles(roles, user) ==
    IF ~user.present THEN "401"
    ELSE IF roles = {} THEN "403"
    ELSE IF ~user.lists THEN "TypeError"
    ELSE IF \E r \in roles : r \in user.roles THEN "next"
    ELSE "403"

\* The values req.user can hold when a guard runs.
ReqUsers == {NoReqUser} \cup {reqUser(t) : t \in {x \in issued : verifyAccessToken(env, x, now)}}

GuardCall(fn, required, user, outcome) ==
    /\ last' = [op |-> fn, required |-> required, user |-> user, outcome |-> outcome]
    /\ UNCHANGED <<env, now, issued, cache, cacheUp, req, revokedTokens, revokedUsers, ops>>
    /\ UNCHANGED <<routeVars, sessionVars>>

RequirePermissions(permissions, user) ==
    GuardCall("requirePermissions", permissions, user, requirePermissions(permissions, user))

RequireRoles(roles, user) ==
    GuardCall("requireRoles", roles, user, requireRoles(roles, user))

NextGuards ==
    \/ Tick
    \/ \E u \in Subjects : JwtGenerateAccessToken(u)
    \/ \E u \in Subjects : JwtGenerateRefreshToken(u)
    \/ \E P \in SUBSET PermissionNames, user \in ReqUsers : RequirePermissions(P, user)
    \/ \E R \in SUBSET RoleNames, user \in ReqUsers : RequireRoles(R, user)

SpecGuards == Init /\ [][NextGuards]_vars

(***************************************************************************)
(* The route specification: declarations (decorator calls), the one        *)
(* registerRoutes pass of setupRoutes, and requests on the mounted routes. *)
(* setupRoutes starts import('@/controllers') without awaiting it, so a    *)
(* declaration may also run after registerRoutes.                          *)
(***************************************************************************)
Declare ==
    /\ (mounted.done => late < MaxLate)
    /\ late' = IF mounted.done THEN late + 1 ELSE late
    /\ UNCHANGED <<mounted, trace, rateLimiters>>
    /\ UNCHANGED <<authVars, sessionVars>>

ControllerDecorator(c, mws, sys) ==
    /\ ~metadata[c].controller.defined
    /\ Declare
    /\ metadata' = [metadata EXCEPT ![c].controller =
                        Controller(ControllerPrefix(c), mws, sys)]
    /\ registry' = registerController(registry, c)
    /\ UNCHANGED authDeclared

\* Get / Post / ... applied to a method: the route is pushed onto the list,
\* whatever the list holds already.
DeclareRoute(c, method, path, mws, h, limit) ==
    /\ Len(metadata[c].routes) < limit
    /\ Declare
    /\ metadata' = [metadata EXCEPT ![c].routes =
                        Append(@, createRouteDecorator(method, path, mws, h))]
    /\ UNCHANGED <<registry, authDeclared>>

RouteDecorator(c, method, path, mws, h) == DeclareRoute(c, method, path, mws, h, MaxRoutes)

UseMiddlewareMethod(c, h, mw) ==
    /\ \A k \in 1..Len(metadata[c].routes) :
            Len(metadata[c].routes[k].middlewares) < MaxMiddlewares
    /\ Declare
    /\ metadata' = [metadata EXCEPT ![c] = UseMiddlewareOnMethod(@, h, mw)]
    /\ authDeclared' = IF mw = "authenticateJWT"
                       THEN authDeclared \cup {<<c, h>>} ELSE authDeclared
    /\ UNCHANGED registry

UseMiddlewareClass(c, mw) ==
    /\ Len(metadata[c].controller.middlewares) < MaxMiddlewares
    /\ Declare
    /\ metadata' = [metadata EXCEPT ![c] = UseMiddlewareOnClass(@, mw)]
    /\ authDeclared' = IF mw = "authenticateJWT"
                       THEN authDeclared \cup {<<c, "class">>} ELSE authDeclared
    /\ UNCHANGED registry

Validate(c, h) ==
    /\ h \notin metadata[c].validate
    /\ Declare
    /\ metadata' = [metadata EXCEPT ![c].validate = @ \cup {h}]
    /\ UNCHANGED <<registry, authDeclared>>

RateLimit(c, h, options) ==
    /\ h \notin metadata[c].rateLimit
    /\ Declare
    /\ metadata' = [metadata EXCEPT ![c].rateLimit = @ \cup {h},
                                    ![c].rateLimitOptions[h] = options]
    /\ UNCHANGED <<registry, authDeclared>>

\* A registered class whose controller metadata no longer resolves when the
\* routes are registered: Reflect.getMetadata(METADATA_KEYS.CONTROLLER, c)
\* yields undefined (the metadata was removed after Controller() ran); the
\* class stays in the registry and its route declarations stay in place.
LoseMetadata(c) ==
    /\ ~mounted.done
    /\ metadata[c].controller.defined
    /\ metadata' = [metadata EXCEPT ![c].controller = NoController]
    /\ UNCHANGED <<registry, mounted, late, authDeclared, trace, rateLimiters>>
    /\ UNCHANGED <<authVars, sessionVars>>

RegisterRoutes ==
    /\ ~mounted.done
    /\ mounted' = registerRoutes(metadata, registry)
    /\ rateLimiters' = createLimiters(mounted')
    /\ UNCHANGED <<metadata, registry, late, authDeclared, trace>>
    /\ UNCHANGED <<authVars, sessionVars>>

\* Express serving one request: the first matching route's chain is walked;
\* a request no mounted route matches falls through to the 404 responder.
\* stop > 0: element number stop answers the request; stop = 0: every guard
\* calls next() and the wrapped handler runs with the given outcome.  What a
\* guard decides is an input here; for the rate limiter the decision follows
\* from its hit store, which LimitedRequest keeps.
Serve(method, url, stop, outcome) ==
    /\ mounted.done
    /\ \E hit \in {dispatch(mounted, method, url)} :
          IF hit = <<0, 0>>
          THEN /\ stop = 0
               /\ outcome = Completes
               /\ trace' = [dispatched |-> TRUE, method |-> method, url |-> url,
                             router |-> 0, route |-> 0, log |-> <<>>, status |-> "404",
                             outcome |-> NoOutcome, forwarded |-> <<>>,
                             responder |-> "notFound", code |-> "404"]
          ELSE /\ stop \in 0..(Len(mounted.routers[hit[1]].routes[hit[2]].chain) - 1)
               /\ stop > 0 => outcome = Completes
               /\ \E w \in {walk(mounted.routers[hit[1]].routes[hit[2]].chain, stop)} :
                     trace' = IF stop > 0
                              THEN [dispatched |-> TRUE, method |-> method, url |-> url,
                                    router |-> hit[1], route |-> hit[2],
                                    log |-> w.log, status |-> w.status,
                                    outcome |-> NoOutcome, forwarded |-> <<>>,
                                    responder |-> "guard", code |-> w.status]
                              ELSE [dispatched |-> TRUE, method |-> method, url |-> url,
                                    router |-> hit[1], route |-> hit[2],
                                    log |-> w.log,
                                    status |-> handlerResponse(outcome).status,
                                    outcome |-> outcome,
                                    forwarded |-> wrappedHandler(outcome),
                                    responder |-> handlerResponse(outcome).responder,
                                    code |-> handlerResponse(outcome).code]
    /\ UNCHANGED <<metadata, registry, mounted, late, authDeclared>>

\* A request for the address of the j-th route of the i-th mounted router, on
\* which the handler, if reached, completes.
Request(i, j, stop) ==
    /\ i \in 1..Len(mounted.routers)
    /\ j \in 1..Len(mounted.routers[i].routes)
    /\ Serve(mounted.routers[i].routes[j].method,
             mounted.routers[i].path \o mounted.routers[i].routes[j].path, stop, Completes)
    /\ UNCHANGED rateLimiters
    /\ UNCHANGED <<authVars, sessionVars>>

\* A request that reaches the handler of a mounted route.
Invoke(i, j, outcome) ==
    /\ i \in 1..Len(mounted.routers)
    /\ j \in 1..Len(mounted.routers[i].routes)
    /\ Serve(mounted.routers[i].routes[j].method,
             mounted.routers[i].path \o mounted.routers[i].routes[j].path, 0, outcome)
    /\ UNCHANGED rateLimiters
    /\ UNCHANGED <<authVars, sessionVars>>

\* The route limiter of the j-th route of the i-th router counting a request
\* from address ip: the limiters' state after it.
countHit(rl, i, j, ip, nowMs) ==
    LET options == mounted.routers[i].routes[j].limiter
        key == keyGenerator(ip)
        client == increment(rl.store[<<i, j>>][key], nowMs, options.windowMs)
        over == client.totalHits > options.max
        w == windowAt(rl.windows[<<i, j>>][ip], nowMs, options.windowMs)
    IN  [app |-> rl.app,
         store |-> [rl.store EXCEPT ![<<i, j>>][key] = client],
         windows |-> [rl.windows EXCEPT ![<<i, j>>][ip] =
                        [w EXCEPT !.passed = IF over THEN @ ELSE @ + 1]],
         seen |-> [counted |-> TRUE, order |-> <<"route">>, route |-> <<i, j>>,
                   ip |-> ip, passedBefore |-> w.passed,
                   status |-> IF over THEN "429" ELSE "next",
                   retryAfter |-> IF over THEN retryAfter(options.windowMs) ELSE 0],
         requests |-> rl.requests + 1]

\* Mutant: the routers are installed ahead of the application-wide limiter.
appChain_RoutesFirst == <<"routes", "rateLimiter", "notFound", "errorHandler">>

\* createApp: the stages installed on the app with app.use, in order (the
\* stages ahead of the limiter neither answer nor count requests)
appChain == <<"rateLimiter", "routes", "notFound", "errorHandler">>

Before(chain, a, b) ==
    \E x, y \in 1..Len(chain) : x < y /\ chain[x] = a /\ chain[y] = b

\* createRateLimiter(): env.COMMON_RATE_LIMIT_WINDOW_MS and
\* env.COMMON_RATE_LIMIT_MAX_REQUESTS, here a limit small enough to be reached
CommonRateLimit == [windowMs |-> 1000, max |-> 2]

\* A request from address ip for the j-th route of the i-th mounted router,
\* a route that owns a limiter: the limiter counts the hit under the caller's
\* key and answers 429 once the key's hits exceed max; otherwise it calls
\* next() and the rest of the chain runs.
LimitedRequest(i, j, ip) ==
    /\ mounted.done
    /\ <<i, j>> \in DOMAIN rateLimiters.store
    /\ dispatch(mounted, mounted.routers[i].routes[j].method,
                mounted.routers[i].path \o mounted.routers[i].routes[j].path) = <<i, j>>
    /\ rateLimiters.requests < MaxRequests
    /\ rateLimiters' = countHit(rateLimiters, i, j, ip, now * 1000)
    /\ Serve(mounted.routers[i].routes[j].method,
             mounted.routers[i].path \o mounted.routers[i].routes[j].path,
             IF countHit(rateLimiters, i, j, ip, now * 1000).seen.status = "429"
             THEN 1 ELSE 0, Completes)
    /\ UNCHANGED <<authVars, sessionVars>>

\* A request from address ip for a limited route, through the application:
\* the stages installed with app.use run in appChain order.  With the
\* application-wide limiter ahead of the routes it counts the request first
\* and, once its limit is exceeded, answers 429 before any router sees the
\* request; otherwise the request goes on to the route's chain.
AppRequest(i, j, ip) ==
    /\ mounted.done
    /\ <<i, j>> \in DOMAIN rateLimiters.store
    /\ dispatch(mounted, mounted.routers[i].routes[j].method,
                mounted.routers[i].path \o mounted.routers[i].routes[j].path) = <<i, j>>
    /\ rateLimiters.requests < MaxRequests
    /\ LET key == keyGenerator(ip)
           client == increment(rateLimiters.app[key], now * 1000,
                               CommonRateLimit.windowMs)
           over == client.totalHits > CommonRateLimit.max
           counted == countHit(rateLimiters, i, j, ip, now * 1000)
       IN  IF Before(appChain, "rateLimiter", "routes")
           THEN IF over
                THEN /\ rateLimiters' =
                           [rateLimiters EXCEPT
                               !.app[key] = client,
                               !.seen = [NoHit EXCEPT !.order = <<"rateLimiter">>,
                                                      !.route = <<i, j>>,
                                                      !.ip = ip,
                                                      !.status = "429"],
                               !.requests = @ + 1]
                     /\ trace' = [NoTrace EXCEPT
                                     !.method = mounted.routers[i].routes[j].method,
                                     !.url = mounted.routers[i].path
                                             \o mounted.routers[i].routes[j].path,
                                     !.status = "429",
                                     !.responder = "rateLimiter",
                                     !.code = "429"]
                     /\ UNCHANGED <<metadata, registry, mounted, late, authDeclared>>
                ELSE /\ rateLimiters' =
                           [counted EXCEPT !.app[key] = client,
                                           !.seen.order = <<"rateLimiter", "route">>]
                     /\ Serve(mounted.routers[i].routes[j].method,
                              mounted.routers[i].path
                              \o mounted.routers[i].routes[j].path,
                              IF counted.seen.status = "429" THEN 1 ELSE 0, Completes)
           ELSE /\ rateLimiters' = counted
                /\ Serve(mounted.routers[i].routes[j].method,
                         mounted.routers[i].path \o mounted.routers[i].routes[j].path,
                         IF counted.seen.status = "429" THEN 1 ELSE 0, Completes)
    /\ UNCHANGED <<authVars, sessionVars>>

\* The addresses a client may try: every controller prefix, with and without
\* the API prefix, followed by a route path.
Urls == {base \o path : base \in {ControllerPrefix(c) : c \in Classes}
                                \cup {ApiPrefix \o ControllerPrefix(c) : c \in Classes},
                        path \in RoutePaths}

\* A request for any address, mounted or not.
Fetch(method, url) ==
    /\ Serve(method, url, 0, Completes)
    /\ UNCHANGED rateLimiters
    /\ UNCHANGED <<authVars, sessionVars>>

NextRoutes ==
    \/ \E c \in FullyDecorated, mws \in OptionMiddlewares, sys \in BOOLEAN :
            ControllerDecorator(c, mws, sys)
    \/ \E c \in FullyDecorated, method \in Methods, path \in RoutePaths,
          mws \in OptionMiddlewares, h \in HandlerNames :
            RouteDecorator(c, method, path, mws, h)
    \/ \E c \in FullyDecorated, h \in HandlerNames, mw \in MethodMiddlewares :
            UseMiddlewareMethod(c, h, mw)
    \/ \E c \in FullyDecorated, mw \in ClassMiddlewares : UseMiddlewareClass(c, mw)
    \/ \E c \in FullyDecorated, h \in HandlerNames : Validate(c, h)
    \/ \E c \in FullyDecorated, h \in HandlerNames : RateLimit(c, h, StrictLimit)
    \/ RegisterRoutes
    \/ \E i \in 1..Cardinality(Classes), j \in 1..MaxRoutes,
          stop \in 0..(2 * MaxMiddlewares + 2) : Request(i, j, stop)

SpecRoutes == Init /\ [][NextRoutes]_vars

(***************************************************************************)
(* The mounting specification: several controllers, declared with          *)
(* Controller() and route decorators only, mounted in one registerRoutes   *)
(* pass.                                                                   *)
(***************************************************************************)
NextMount ==
    \/ \E c \in Classes, sys \in BOOLEAN : ControllerDecorator(c, <<>>, sys)
    \/ \E c \in Classes, method \in Methods, path \in RoutePaths, h \in HandlerNames :
            RouteDecorator(c, method, path, <<>>, h)
    \/ \E c \in Classes : LoseMetadata(c)
    \/ RegisterRoutes
    \/ \E method \in Methods, url \in Urls : Fetch(method, url)

SpecMount == Init /\ [][NextMount]_vars

(***************************************************************************)
(* The handler specification: routes with and without guards, and requests *)
(* whose handler completes, throws or rejects.                             *)
(***************************************************************************)
NextHandlers ==
    \/ \E c \in FullyDecorated, sys \in BOOLEAN : ControllerDecorator(c, <<>>, sys)
    \/ \E c \in FullyDecorated, method \in Methods, path \in RoutePaths,
          h \in HandlerNames : RouteDecorator(c, method, path, <<>>, h)
    \/ \E c \in FullyDecorated, h \in HandlerNames : Validate(c, h)
    \/ RegisterRoutes
    \/ \E i \in 1..Cardinality(Classes), j \in 1..MaxRoutes, outcome \in HandlerOutcomes :
            Invoke(i, j, outcome)

SpecHandlers == Init /\ [][NextHandlers]_vars

(***************************************************************************)
(* The rate-limit specification: routes declared with RateLimit options,   *)
(* callers at several addresses, and the clock.  The controllers are       *)
(* loaded before the routes are registered, as createApp does.             *)
(***************************************************************************)
NextLimiter ==
    \/ \E c \in Classes : ~mounted.done /\ ControllerDecorator(c, <<>>, FALSE)
    \/ \E c \in Classes, path \in RoutePaths, h \in HandlerNames :
            ~mounted.done /\ RouteDecorator(c, "post", path, <<>>, h)
    \/ \E c \in Classes, h \in HandlerNames, options \in RateLimitChoices :
            ~mounted.done /\ RateLimit(c, h, options)
    \/ RegisterRoutes
    \/ Tick
    \/ \E i \in 1..Cardinality(Classes), j \in 1..MaxRoutes, ip \in Ips :
            LimitedRequest(i, j, ip)

SpecLimiter == Init /\ [][NextLimiter]_vars

(***************************************************************************)
(* The application specification: the application-wide limiter and the     *)
(* mounted routers, serving requests for limited routes.                   *)
(***************************************************************************)
NextApp ==
    \/ \E c \in Classes : ~mounted.done /\ ControllerDecorator(c, <<>>, FALSE)
    \/ \E c \in Classes, path \in RoutePaths, h \in HandlerNames :
            ~mounted.done /\ RouteDecorator(c, "post", path, <<>>, h)
    \/ \E c \in Classes, h \in HandlerNames :
            ~mounted.done /\ RateLimit(c, h, StrictLimit)
    \/ RegisterRoutes
    \/ Tick
    \/ \E i \in 1..Cardinality(Classes), j \in 1..MaxRoutes, ip \in Ips :
            AppRequest(i, j, ip)

SpecApp == Init /\ [][NextApp]_vars

(***************************************************************************)
(* The declaration specification: several route declarations on a          *)
(* controller, then registration and requests.                             *)
(***************************************************************************)
NextDeclare ==
    \/ \E c \in FullyDecorated, sys \in BOOLEAN :
            ~mounted.done /\ ControllerDecorator(c, <<>>, sys)
    \/ \E c \in FullyDecorated, method \in Methods, path \in RoutePaths,
          mws \in OptionMiddlewares, h \in HandlerNames :
            ~mounted.done /\ DeclareRoute(c, method, path, mws, h, MaxDeclared)
    \/ RegisterRoutes
    \/ \E method \in Methods, url \in Urls : Fetch(method, url)

SpecDeclare == Init /\ [][NextDeclare]_vars

(***************************************************************************)
(* Properties of the authorization pipeline.                               *)
(***************************************************************************)
AuthDone == last.op = "authenticateJWT"
Rejected(code) == last.responses = <<Response(code)>> /\ last.nextCalls = 0
AuthorizedOutcome == last.nextCalls = 1 /\ last.responses = <<>>
BearsToken == AuthDone /\ ~tokenMissing(last.header)
\* The bearer token is validly signed with the access secret and unexpired.
BearsValidToken ==
    /\ BearsToken
    /\ last.header.tok.decodable
    /\ last.header.tok.key = env.JWT_SECRET
    /\ (last.header.tok.exp = NoExp \/ now < last.header.tok.exp)

\* C1: next() is invoked only if verifyAccessToken succeeded and both
\* isBlacklisted(token) and isUserBlacklisted(claims.sub) were evaluated, in
\* that request, and returned false; req.user is then the verified identity.
C1_NextOnlyAfterBothLookups ==
    (AuthDone /\ last.nextCalls > 0) =>
        /\ last.verifyCalled
        /\ last.verified
        /\ BearsValidToken
        /\ last.lookups = <<[fn |-> "isBlacklisted", result |-> FALSE],
                            [fn |-> "isUserBlacklisted", userId |-> last.header.tok.sub,
                             result |-> FALSE]>>
        /\ last.user = last.header.tok.sub

C1_Witness == AuthDone /\ last.nextCalls = 1 /\ last.obs2.reached

C3_RefreshTokenNeverAuthorized ==
    /\ \A t \in issued : t.typ = "refresh" => ~verifyAccessToken(env, t, now)
    /\ (BearsToken /\ last.header.tok \in issued /\ last.header.tok.typ = "refresh")
          => last.nextCalls = 0

\* C4: once addToBlacklist(t) has stored its entry for an issued token t,
\* isBlacklisted(t) is true at every time before the entry's TTL has elapsed
\* (cache reachable), and a request bearing t as a valid access credential,
\* made after the call in that time, is answered TOKEN_REVOKED.
C4_RevokeRoundTrip ==
    \A x \in revokedTokens :
        (x.token \in issued /\ x.expiresIn = NoArg /\ cacheUp /\ now < x.at + x.ttl) =>
            /\ isBlacklisted(cache, cacheUp, x.token, now)
            /\ (BearsValidToken /\ last.header.tok = x.token /\ last.obs1.up
                  /\ last.obs1.seq >= x.seq)
                  => Rejected("TOKEN_REVOKED")

C4_Witness ==
    \E x \in revokedTokens :
        /\ x.token \in issued /\ x.expiresIn = NoArg /\ now > x.at /\ now < x.at + x.ttl
        /\ BearsValidToken /\ last.header.tok = x.token /\ last.obs1.up
        /\ Rejected("TOKEN_REVOKED")

\* C5: every cache write of addToBlacklist carries a TTL greater than 0 and
\* not greater than the token's remaining lifetime exp - now, also when the
\* optional expiresIn is passed; without it the TTL equals exp - now.
C5_TTLWithinRemainingLifetime ==
    (last.op = "addToBlacklist" /\ last.setCalled /\ last.token \in issued) =>
        /\ last.key = <<"blacklist:">> \o last.token.jti
        /\ last.ttl > 0
        /\ last.token.exp # NoExp
        /\ last.ttl <= last.token.exp - last.at
        /\ (last.expiresIn = NoArg => last.ttl = last.token.exp - last.at)

\* C6: after logoutAllDevices(u) has stored its marker, every access token
\* issued to u before the call is rejected on every later request made while
\* the token is unexpired (cache reachable).
C6_LogoutAllOutlivesTokens ==
    \A x \in revokedUsers :
        (/\ x.via = "logoutAllDevices"
         /\ BearsValidToken
         /\ last.header.tok \in issued
         /\ last.header.tok.typ = "access"
         /\ last.header.tok.sub = x.userId
         /\ last.header.tok.iat < x.at
         /\ last.obs2.reached => (last.obs2.up /\ last.obs2.seq >= x.seq))
        => last.nextCalls = 0

\* C7: after blacklistUserTokens(id, ttl) has stored its marker,
\* isUserBlacklisted(id) is true at every time before ttl seconds have passed
\* since the write (cache reachable) and false at every time after; the entry
\* is written at blacklist:user:{id} with value true and exactly that ttl.
C7_UserMarkerWindow ==
    /\ \A x \in revokedUsers :
          /\ (cacheUp /\ now < x.at + x.ttl) => isUserBlacklisted(cache, cacheUp, x.userId, now)
          /\ now >= x.at + x.ttl => ~isUserBlacklisted(cache, cacheUp, x.userId, now)
    /\ (last.op = "blacklistUserTokens" /\ last.up) =>
          /\ last.setCalled /\ last.stored /\ ~last.threw
          /\ last.key = <<"blacklist:", "user:", last.userId>>
          /\ last.ttl = last.expiresIn
          /\ [key |-> <<"blacklist:", "user:", last.userId>>, val |-> "true",
              at |-> last.at, ttl |-> last.expiresIn] \in cache

C7_Witness ==
    \E x \in revokedUsers :
        x.via = "blacklistUserTokens" /\ now >= x.at + x.ttl /\ cacheUp

\* C8: when the cache read fails, isBlacklisted and isUserBlacklisted evaluate
\* to false, and a request with a validly signed, unexpired token whose lookups
\* both failed is Authorized; a failed lookup never produces a response.
C8_FailOpen ==
    /\ ~cacheUp =>
          /\ \A t \in Presentable : ~isBlacklisted(cache, cacheUp, t, now)
          /\ \A u \in Users : ~isUserBlacklisted(cache, cacheUp, u, now)
    /\ (BearsValidToken /\ ~last.obs1.up) =>
          /\ last.obs2.reached
          /\ last.lookups[1].result = FALSE
          /\ (~last.obs2.up => AuthorizedOutcome)
          /\ (~AuthorizedOutcome => (last.obs2.marker /\ Rejected("USER_TOKENS_REVOKED")))
    /\ (BearsValidToken /\ last.obs2.reached /\ ~last.obs2.up) => AuthorizedOutcome
    /\ AuthDone => \A i \in 1..Len(last.responses) : last.responses[i].status = 401

C8_Witness ==
    /\ BearsValidToken /\ last.obs1.marker /\ ~last.obs1.up /\ ~last.obs2.up
    /\ AuthorizedOutcome

\* C9: addToBlacklist(token) on a token that cannot be decoded or has no jti
\* rejects and makes no cache write; on a decodable token with a jti whose
\* remaining lifetime is <= 0 (expired, or no exp) it resolves and makes no
\* cache write; the store is unchanged in both cases.
C9_NoWriteWithoutJtiOrLifetime ==
    [][(last'.op = "addToBlacklist" /\ last'.expiresIn = NoArg) =>
          LET tok == last'.token
              noJti == ~tok.decodable \/ tok.jti = NoJti
              spent == tok.exp = NoExp \/ tok.exp - now <= 0
          IN  /\ noJti => (last'.threw /\ ~last'.setCalled /\ cache' = cache)
              /\ (~noJti /\ spent) => (~last'.threw /\ ~last'.setCalled /\ cache' = cache)
              /\ (~noJti /\ ~spent) => (~last'.threw /\ last'.setCalled)]_vars

C9_Witness ==
    /\ last.op = "addToBlacklist" /\ last.expiresIn = NoArg
    /\ last.token \in issued /\ last.token.exp <= now
    /\ ~last.threw /\ ~last.setCalled

(***************************************************************************)
(* Properties of the route registrar.                                      *)
(***************************************************************************)
TracedRoute == mounted.routers[trace.router].routes[trace.route]
Optional(present, element) == IF present THEN <<element>> ELSE <<>>

\* C10: on a request where every element calls next(), the elements of a
\* mounted route are invoked in the order: the rate-limit guard if RateLimit
\* was declared, validation if Validate was declared, the controller-level
\* middlewares in list order, the route-level middlewares in list order, and
\* last the handler.
C10_ChainOrder ==
    (trace.dispatched /\ trace.status = "handled") =>
        LET d == TracedRoute.decl
        IN  trace.log = Optional(d.rateLimit, RateLimitGuard)
                            \o Optional(d.validate, ValidationGuard)
                            \o Named(d.controllerMiddlewares)
                            \o Named(d.routeMiddlewares)
                            \o <<wrapHandler(d.handlerName)>>

C10_Witness ==
    /\ trace.dispatched
    /\ trace.status = "handled"
    /\ TracedRoute.decl.rateLimit
    /\ TracedRoute.decl.validate
    /\ Len(TracedRoute.decl.controllerMiddlewares) = 2
    /\ Len(TracedRoute.decl.routeMiddlewares) = 2
    /\ TracedRoute.decl.controllerMiddlewares # TracedRoute.decl.routeMiddlewares
    /\ Len(trace.log) = 7

Invoked(kind) == \E k \in 1..Len(trace.log) : trace.log[k].kind = kind

\* C11: when the rate limiter answers 429, neither validation nor any
\* middleware (authenticateJWT included) nor the handler is invoked for that
\* request; when validation answers 400, no controller- or route-level
\* middleware (authenticateJWT included) and no handler is invoked.
C11_ShortCircuit ==
    /\ (trace.dispatched /\ trace.status = "429") =>
          /\ trace.log = <<RateLimitGuard>>
          /\ ~Invoked("validate") /\ ~Invoked("middleware") /\ ~Invoked("handler")
    /\ (trace.dispatched /\ trace.status = "400") =>
          /\ trace.log[Len(trace.log)] = ValidationGuard
          /\ ~Invoked("middleware") /\ ~Invoked("handler")
          /\ \A k \in 1..Len(trace.log) : trace.log[k].name # "authenticateJWT"

C11_Witness ==
    /\ trace.dispatched
    /\ trace.status = "400"
    /\ trace.log = <<RateLimitGuard, ValidationGuard>>
    /\ \E k \in 1..Len(TracedRoute.chain) : TracedRoute.chain[k].name = "authenticateJWT"

\* C12 (as claimed): with every declaration made before registerRoutes, a
\* mounted route whose handler method, or whose controller class, had Auth()
\* applied has authenticateJWT in its chain ahead of the handler, whatever the
\* order in which Auth() and the route decorator (or Controller()) were applied.
C12_AuthAlwaysAttached ==
    (mounted.done /\ late = 0) =>
        \A i \in 1..Len(mounted.routers) : \A j \in 1..Len(mounted.routers[i].routes) :
            LET r == mounted.routers[i].routes[j]
                c == mounted.routers[i].class
            IN  (<<c, r.decl.handlerName>> \in authDeclared \/ <<c, "class">> \in authDeclared)
                    => \E k \in 1..(Len(r.chain) - 1) : r.chain[k] = Middleware("authenticateJWT")

(***************************************************************************)
(* Properties of JWTService.                                               *)
(***************************************************************************)
Unexpired(tok) == tok.exp # NoExp /\ now < tok.exp

\* C13 (as claimed): verifyAccessToken(token) succeeds only if the token is
\* signed under the access secret, unexpired, and carries every required
\* access claim (sub, email, username, roles, permissions, jti, exp); it fails
\* for a non-JWT string, a wrongly signed token, an expired token, and a
\* correctly signed token that lacks a required claim.
C13_VerifyAccessRequiresClaims ==
    last.op = "verifyAccessToken" =>
        (last.ok <=> /\ last.token.decodable
                     /\ last.token.key = env.JWT_SECRET
                     /\ Unexpired(last.token)
                     /\ RequiredAccessClaims \subseteq payloadClaims(last.token))

\* C14: verifyRefreshToken(token) succeeds only for a token signed under the
\* refresh secret, unexpired and of type "refresh"; it fails for every access
\* token generateAccessToken produced, also when the refresh secret equals the
\* access secret; for an unexpired token of generateRefreshToken(id) it
\* succeeds, and the token carries sub = id and a jti.
C14_VerifyRefreshRequiresType ==
    /\ last.op = "verifyRefreshToken" =>
          /\ last.ok => /\ last.token.key = refreshSecret(env)
                        /\ Unexpired(last.token)
                        /\ last.token.typ = "refresh"
          /\ (last.token \in issued /\ last.token.typ = "access") => ~last.ok
          /\ (last.token \in issued /\ last.token.typ = "refresh" /\ Unexpired(last.token))
                => last.ok
    /\ last.op = "generateRefreshToken" =>
          /\ verifyRefreshToken(env, last.token, now)
          /\ last.token.sub = last.user
          /\ last.token.jti # NoJti

C14_Witness ==
    /\ last.op = "verifyRefreshToken"
    /\ last.token \in issued
    /\ last.token.typ = "access"
    /\ Unexpired(last.token)
    /\ refreshSecret(env) = secret(env)
    /\ ~last.ok

\* C15: verifyAccessToken(generateAccessToken(u)) succeeds at every time
\* before the token's expiry; the claims are sub = u.id and u's email,
\* username, roles and permissions, with a non-empty jti; no two issued tokens
\* share a jti.
C15_AccessRoundTrip ==
    /\ last.op = "generateAccessToken" =>
          /\ verifyAccessToken(env, last.token, now)
          /\ last.token.sub = AuthenticatedUser(last.user).id
          /\ last.token.profile.email = AuthenticatedUser(last.user).email
          /\ last.token.profile.username = AuthenticatedUser(last.user).username
          /\ last.token.profile.roles = AuthenticatedUser(last.user).roles
          /\ last.token.profile.permissions = AuthenticatedUser(last.user).permissions
          /\ last.token.jti # NoJti /\ last.token.jti # <<>>
    /\ \A t \in issued :
          (t.typ = "access" /\ Unexpired(t)) => verifyAccessToken(env, t, now)
    /\ (last.op = "verifyAccessToken" /\ last.token \in issued
            /\ last.token.typ = "access" /\ Unexpired(last.token)) => last.ok
    /\ \A t1 \in issued : \A t2 \in issued : t1 # t2 => t1.jti # t2.jti

C15_Witness ==
    /\ last.op = "verifyAccessToken" /\ last.ok
    /\ last.token \in issued /\ last.token.typ = "access"
    /\ now > last.token.iat
    /\ \E t \in issued : t # last.token /\ t.typ = "access"

(***************************************************************************)
(* Properties of the permission and role guards.                           *)
(***************************************************************************)
\* C16: for a request whose req.user is a verified identity with roles and
\* permissions, requirePermissions(P) calls next() exactly when every
\* permission of P is in user.permissions, and requireRoles(R) exactly when
\* some role of R is in user.roles; a failed check is answered 403; a request
\* without req.user is answered 401, never 403.
C16_GuardsDecideByMembership ==
    /\ (last.op = "requirePermissions" /\ last.user.present /\ last.user.lists) =>
          /\ last.outcome = "next" <=> last.required \subseteq last.user.permissions
          /\ last.outcome # "next" => last.outcome = "403"
    /\ (last.op = "requireRoles" /\ last.user.present /\ last.user.lists) =>
          /\ last.outcome = "next" <=> last.required \cap last.user.roles # {}
          /\ last.outcome # "next" => last.outcome = "403"
    /\ (last.op \in {"requirePermissions", "requireRoles"} /\ ~last.user.present) =>
          last.outcome = "401"

C16_Witness ==
    /\ last.op = "requireRoles"
    /\ last.user.present /\ last.user.lists
    /\ last.required = {"user", "admin"}
    /\ last.outcome = "next"

(***************************************************************************)
(* Properties of mounting.                                                 *)
(***************************************************************************)
\* The mount path the declaration of class c asks for.
DeclaredMountPath(c) ==
    IF metadata[c].controller.isSystemRoute
    THEN ControllerPrefix(c)
    ELSE ApiPrefix \o ControllerPrefix(c)

Listed(list, path) == \E k \in 1..Len(list) : list[k].path = path

\* The mounted routes whose address (method, mount path the declaration asks
\* for + route path) is the one the traced request was sent to.
Addressed ==
    {ij \in (1..Len(mounted.routers)) \X (1..MaxRouteIndex(mounted)) :
        /\ ij[2] <= Len(mounted.routers[ij[1]].routes)
        /\ mounted.routers[ij[1]].routes[ij[2]].method = trace.method
        /\ DeclaredMountPath(mounted.routers[ij[1]].class)
             \o mounted.routers[ij[1]].routes[ij[2]].path = trace.url}

HandlerFailed == trace.dispatched /\ trace.outcome.how \in {"throws", "rejects"}
HandlerCompleted == trace.dispatched /\ trace.outcome.how = "returns"

\* The wrapper's own part: a failure of the handler is passed to next exactly
\* once, with the value the handler failed with, and next(error) is not called
\* when the handler completes.
WrapperForwardsOnce ==
    /\ HandlerFailed => trace.forwarded = <<trace.outcome.error>>
    /\ HandlerCompleted => trace.forwarded = <<>>

\* C18: when the handler of a mounted route throws or rejects, the wrapper
\* calls next(error) exactly once with that error and the centralized
\* errorHandler produces the response; next(error) is not called when the
\* handler completes normally.
C18_FailureAnsweredByErrorHandler ==
    /\ WrapperForwardsOnce
    /\ HandlerFailed => trace.responder = "errorHandler"
    /\ HandlerCompleted => trace.responder = "handler"

(***************************************************************************)
(* Properties of registration with unresolvable controllers.               *)
(***************************************************************************)
Registered(c) == \E k \in 1..Len(registry) : registry[k] = c
Resolvable(c) == metadata[c].controller.defined
RoutersOf(c) == {i \in 1..Len(mounted.routers) : mounted.routers[i].class = c}

\* C19: a registerRoutes pass over a registry holding controllers whose
\* metadata does not resolve completes, mounts nothing for those controllers,
\* and mounts the other registered controllers, in registration order, each
\* with every declared route, exactly as a pass over the registry without the
\* unresolvable controllers does.
C19_UnresolvableSkipped ==
    (mounted.done /\ late = 0) =>
        /\ \A c \in Classes :
              /\ (Registered(c) /\ ~Resolvable(c)) => RoutersOf(c) = {}
              /\ (Registered(c) /\ Resolvable(c)) =>
                    /\ Cardinality(RoutersOf(c)) = 1
                    /\ \A i \in RoutersOf(c) :
                          /\ Len(mounted.routers[i].routes) = Len(metadata[c].routes)
                          /\ \A k \in 1..Len(metadata[c].routes) :
                                /\ mounted.routers[i].routes[k].method
                                      = metadata[c].routes[k].method
                                /\ mounted.routers[i].routes[k].path
                                      = metadata[c].routes[k].path
        /\ mounted = registerRoutes(metadata, SelectSeq(registry, Resolvable))

\* A pass that skipped one registered controller and mounted a route of
\* another one registered after it.
C19_Witness ==
    /\ mounted.done
    /\ late = 0
    /\ Len(registry) = 2
    /\ ~Resolvable(registry[1])
    /\ Resolvable(registry[2])
    /\ Len(metadata[registry[1]].routes) > 0
    /\ Len(mounted.routers) = 1
    /\ mounted.routers[1].class = registry[2]
    /\ Len(mounted.routers[1].routes) > 0

(***************************************************************************)
(* Properties of per-route rate limiting.                                  *)
(***************************************************************************)
LimiterOf(ij) == mounted.routers[ij[1]].routes[ij[2]].limiter
Seen == rateLimiters.seen

\* C20: on a route declared with RateLimit({windowMs, max}), at most max
\* requests of one caller address pass the limiter within one window of that
\* caller; a request is answered 429, with a retry-after value and without
\* running the rest of the chain, exactly when max requests of the same
\* caller on the same route have already passed in the window, whatever
\* other callers did and whatever happened on other routes.
C20_PerRoutePerCallerLimit ==
    /\ \A ij \in DOMAIN rateLimiters.windows : \A ip \in Ips :
          rateLimiters.windows[ij][ip].passed <= LimiterOf(ij).max
    /\ Seen.counted =>
          /\ (Seen.status = "429") <=> (Seen.passedBefore >= LimiterOf(Seen.route).max)
          /\ (Seen.status = "429") =>
                /\ Seen.retryAfter = retryAfter(LimiterOf(Seen.route).windowMs)
                /\ Seen.retryAfter > 0
                /\ trace.status = "429"
                /\ trace.log = <<RateLimitGuard>>
          /\ (Seen.status = "next") =>
                /\ trace.status = "handled"
                /\ trace.log[1] = RateLimitGuard

\* A caller answered 429 on one route while another caller has passed on the
\* same route and the same caller has passed on another limited route, both
\* within their running windows.
C20_Witness ==
    /\ Seen.counted
    /\ Seen.status = "429"
    /\ \E other \in Ips \ {Seen.ip} :
          /\ rateLimiters.windows[Seen.route][other].passed > 0
          /\ rateLimiters.windows[Seen.route][other].end > now * 1000
    /\ \E ij \in DOMAIN rateLimiters.windows \ {Seen.route} :
          /\ rateLimiters.windows[ij][Seen.ip].passed > 0
          /\ rateLimiters.windows[ij][Seen.ip].end > now * 1000

(***************************************************************************)
(* Properties of the limiter order.                                        *)
(***************************************************************************)
Evaluated == Seen.order # <<>>

\* C21 as stated: on a request to a route that declares RateLimit, the
\* route's limiter is evaluated before the application-wide limiter.
C21_RouteLimiterFirst ==
    Evaluated => Seen.order[1] = "route"

\* C21 as the code has it: the application-wide limiter is evaluated first;
\* the route's limiter is evaluated second, and only on a request the
\* application-wide limiter let through.
C21_GlobalLimiterFirst ==
    Evaluated =>
        /\ Seen.order[1] = "rateLimiter"
        /\ Seen.order \in {<<"rateLimiter">>, <<"rateLimiter", "route">>}
        /\ (Seen.order = <<"rateLimiter">>) <=> (trace.responder = "rateLimiter")
        /\ (Seen.order = <<"rateLimiter">>) => ~Seen.counted

\* A request the application-wide limiter answered with 429 while the caller
\* had not exhausted the route's own limit.
C21_Witness ==
    /\ Seen.order = <<"rateLimiter">>
    /\ trace.status = "429"
    /\ rateLimiters.windows[Seen.route][Seen.ip].passed < LimiterOf(Seen.route).max
    /\ rateLimiters.app[Seen.ip].totalHits > CommonRateLimit.max

(***************************************************************************)
(* Properties of the route list.                                           *)
(***************************************************************************)
\* C22: after any sequence of route declarations on one controller, no two
\* entries of the controller's route list have the same (method, path) pair.
C22_RoutePairsUnique ==
    \A c \in Classes :
        \A k, n \in 1..Len(metadata[c].routes) :
            (/\ metadata[c].routes[k].method = metadata[c].routes[n].method
             /\ metadata[c].routes[k].path = metadata[c].routes[n].path) => k = n

(***************************************************************************)
(* Properties of the registry after registration.                          *)
(***************************************************************************)
\* C23: every declaration takes effect before registerRoutes walks the
\* registry, and once registerRoutes has run, the registered controllers and
\* each controller's route and middleware metadata are changed neither by
\* registerRoutes nor by any later operation.
C23_WriteOnceThenReadOnly ==
    [][(mounted.done \/ mounted'.done) => (registry' = registry /\ metadata' = metadata)]_vars

(***************************************************************************)
(* Properties of the boot configuration.                                   *)
(***************************************************************************)
ValidDuration(d) == d.value > 0 /\ d.unit \in {"s", "m", "h", "d"}
ValidSecrets(e) == e.JWT_SECRET \notin {"", "short"} /\ e.JWT_REFRESH_SECRET # "short"
ValidConfiguration(e) ==
    /\ ValidDuration(e.JWT_EXPIRES_IN)
    /\ ValidDuration(e.JWT_REFRESH_EXPIRES_IN)
    /\ ValidSecrets(e)

\* C24: with a JWT duration that is not a positive integer followed by s, m,
\* h or d, or with a missing or invalid signing secret, the process fails at
\* boot: it never reaches the running state and no token is ever issued.
C24_InvalidConfigurationFatal ==
    ~ValidConfiguration(env) =>
        /\ last.op \in {"start", "exit"}
        /\ issued = {}

\* The secret half of C24, which the schema does enforce.
InvalidSecretFatal ==
    ~ValidSecrets(env) => (last.op \in {"start", "exit"} /\ issued = {})

(***************************************************************************)
(* Properties of decodeToken.                                              *)
(***************************************************************************)
Decoded == last.op = "decodeToken"

\* C25: decodeToken never throws; for a string that is no decodable token it
\* returns null; for a token generateAccessToken issued it returns the claims
\* with the subject the token was issued to, whether or not the token has
\* expired, and for a decodable token signed with another key it returns
\* the claims as well.
C25_DecodeNeverThrows ==
    Decoded =>
        /\ ~last.threw
        /\ (~last.token.decodable) => last.result = NullPayload
        /\ (last.token \in issued /\ last.token.typ = "access") =>
              /\ last.result # NullPayload
              /\ last.result.sub \in Subjects
              /\ last.result.sub = last.result.profile.username
              /\ last.result.jti = last.token.jti
        /\ last.token.decodable => last.result.sub = last.token.sub

\* decodeToken applied to an issued access token after it has expired.
C25_Witness ==
    /\ Decoded
    /\ last.token \in issued
    /\ last.token.typ = "access"
    /\ last.token.exp <= last.at
    /\ last.result.sub = last.token.sub

\* decodeToken applied to a string jwt.decode throws on.
MalformedDecoded ==
    /\ Decoded
    /\ last.token = MalformedToken
    /\ last.result = NullPayload

(***************************************************************************)
(* Properties of a revoked token over time.                                *)
(***************************************************************************)
\* The request just answered bore the token of revocation x, validly signed
\* and unexpired, and both lookups read a reachable cache after x was stored.
BearsRevoked(x) ==
    /\ BearsValidToken
    /\ last.header.tok = x.token
    /\ last.obs1.up /\ last.obs1.seq >= x.seq
    /\ last.obs2.reached => last.obs2.up

\* C26: once addToBlacklist(t, expiresIn?) has stored the marker of an
\* unexpired token t, no later request bearing t while t is unexpired and the
\* cache is reachable is Authorized: it is rejected with TOKEN_REVOKED, with
\* or without the expiresIn argument.
C26_RevokedUntilExpiry ==
    \A x \in revokedTokens :
        (x.token \in issued /\ BearsRevoked(x)) =>
            (~AuthorizedOutcome /\ Rejected("TOKEN_REVOKED"))

\* The part of C26 that holds: a token revoked without the expiresIn argument
\* is rejected with TOKEN_REVOKED until it expires.
RevokedByDefaultUntilExpiry ==
    \A x \in revokedTokens :
        (x.token \in issued /\ x.expiresIn = NoArg /\ BearsRevoked(x)) =>
            Rejected("TOKEN_REVOKED")

\* A request bearing a token revoked without expiresIn, after the clock moved.
RevokedByDefaultSeen ==
    \E x \in revokedTokens :
        /\ x.token \in issued /\ x.expiresIn = NoArg /\ BearsRevoked(x)
        /\ now > x.at

(***************************************************************************)
(* Properties of the subject marker and the tokens it covers.              *)
(***************************************************************************)
\* The request just answered bore an issued access token, validly signed and
\* unexpired, whose own marker was not in the store, and reached the subject
\* lookup while the subject's marker was in the store.
BearsCoveredToken ==
    /\ BearsValidToken
    /\ last.header.tok \in issued
    /\ last.header.tok.typ = "access"
    /\ ~last.obs1.marker
    /\ last.obs2.reached
    /\ last.obs2.marker

\* C27 (as claimed): while the marker blacklist:user:{u} is live, every
\* request bearing a valid unexpired access token of u whose jti is not
\* blacklisted is rejected with USER_TOKENS_REVOKED.
C27_LiveMarkerRejects ==
    BearsCoveredToken => Rejected("USER_TOKENS_REVOKED")

\* C27 (amended): while the marker blacklist:user:{u} is live and the cache
\* is reachable at the subject lookup, every request bearing a valid unexpired
\* access token of u whose jti is not blacklisted is rejected with
\* USER_TOKENS_REVOKED, whenever the token was issued; with the cache
\* reachable such a token is Authorized only once the TTL of every marker
\* stored for u has elapsed.
C27_ReadableMarkerRejects ==
    /\ (BearsCoveredToken /\ last.obs2.up) => Rejected("USER_TOKENS_REVOKED")
    /\ (BearsValidToken /\ last.header.tok \in issued /\ last.header.tok.typ = "access"
        /\ AuthorizedOutcome /\ last.obs2.up) =>
          \A x \in revokedUsers :
              (x.userId = last.header.tok.sub /\ x.seq <= last.obs2.seq) =>
                  now >= x.at + x.ttl

\* A token issued after logoutAllDevices stored the marker is rejected.
C27_Witness ==
    \E x \in revokedUsers :
        /\ x.via = "logoutAllDevices"
        /\ BearsCoveredToken /\ last.obs2.up
        /\ last.header.tok.sub = x.userId
        /\ last.header.tok.iat > x.at
        /\ Rejected("USER_TOKENS_REVOKED")

\* A token issued while the marker was live is Authorized once it is gone.
AuthorizedAfterMarker ==
    \E x \in revokedUsers :
        /\ BearsValidToken /\ AuthorizedOutcome /\ last.obs2.up
        /\ last.header.tok \in issued
        /\ last.header.tok.sub = x.userId
        /\ last.header.tok.iat >= x.at
        /\ last.header.tok.iat < x.at + x.ttl
        /\ now >= x.at + x.ttl

(***************************************************************************)
(* Properties of logout.                                                   *)
(***************************************************************************)
\* The marker of token tok is in the store, as addToBlacklist writes it.
MarkerStored(tok) ==
    \E x \in cache : x.key = <<"blacklist:">> \o tok.jti /\ x.val = "true"

\* The call just made was addToBlacklist, or a logout that returned, on an
\* issued token with a jti that was unexpired when it was blacklisted.
Blacklisting ==
    /\ last.op \in {"addToBlacklist", "logout"}
    /\ last.token \in issued
    /\ last.token.jti # NoJti

\* C28: addToBlacklist(t), and logout(t), on an unexpired token with a jti
\* completes without error only if the marker blacklist:{jti} was stored
\* (for logout: on a token still unexpired when logout returns).
C28_SuccessMeansStored ==
    /\ (Blacklisting /\ last.op = "addToBlacklist" /\ last.at < last.token.exp
        /\ ~last.threw) => (last.stored /\ MarkerStored(last.token))
    /\ (Blacklisting /\ last.op = "logout" /\ ~last.threw /\ now < last.token.exp) =>
          (last.stored /\ MarkerStored(last.token))

\* The part of C28 that holds: with the cache reachable at the write, a call
\* on an unexpired token that completes has stored the marker.
StoredWhenReachable ==
    (Blacklisting /\ last.op = "addToBlacklist" /\ last.at < last.token.exp
     /\ ~last.threw /\ last.up) => (last.stored /\ MarkerStored(last.token))

\* A logout that returned after the marker was stored.
LogoutStored ==
    Blacklisting /\ last.op = "logout" /\ ~last.threw /\ last.stored

(***************************************************************************)
(* Properties of a session after logout.                                   *)
(***************************************************************************)
\* The access token that was issued by the login that issued refresh token r.
LoginTokens(r) == {l.accessToken : l \in {x \in sessionLog.logins : x.refreshToken = r}}

\* A refreshToken call has just returned a new access token.
RefreshSucceeded == last.op = "refreshToken" /\ ~last.threw

\* C29: once logout(t) has completed, a refreshToken(r) call made afterwards
\* with the refresh token of the same login fails.
C29_NoRefreshAfterLogout ==
    RefreshSucceeded => LoginTokens(last.refreshToken) \cap last.after = {}

\* C29, the concurrent case: no refreshToken(r) call returns a new access
\* token once logout(t) of the same login has completed.
NoRefreshReturnsAfterLogout ==
    RefreshSucceeded => LoginTokens(last.refreshToken) \cap sessionLog.loggedOut = {}

\* The part of C29 that holds: after logout(t) has completed, no row stores
\* t, and a session that was never refreshed is gone.
LogoutDeletesRowOfToken ==
    /\ \A t \in sessionLog.loggedOut : \A x \in sessions : x.token # t
    /\ (last.op = "refreshToken" /\ issued = {last.refreshToken} \cup LoginTokens(last.refreshToken)
        /\ LoginTokens(last.refreshToken) \cap last.after # {}) => last.threw

\* A refreshToken call made after the logout of a session never refreshed.
RefreshRefusedAfterLogout ==
    /\ last.op = "refreshToken" /\ last.threw
    /\ verifyRefreshToken(env, last.refreshToken, last.at)
    /\ LoginTokens(last.refreshToken) \cap last.after # {}

(***************************************************************************)
(* Properties of the revocation scopes.                                    *)
(***************************************************************************)
\* The lookups the step leaves as they were: isBlacklisted of the tokens in
\* `tokens`, isUserBlacklisted of the users in `users`.
LookupsKept(tokens, users) ==
    /\ \A t \in tokens :
          isBlacklisted(cache', cacheUp', t, now') = isBlacklisted(cache, cacheUp, t, now)
    /\ \A s \in users :
          isUserBlacklisted(cache', cacheUp', s, now') = isUserBlacklisted(cache, cacheUp, s, now)

\* C30: addToBlacklist(t) changes isBlacklisted only for tokens with the jti
\* of t and isUserBlacklisted for no subject; blacklistUserTokens(s, ttl)
\* changes isUserBlacklisted only for s and isBlacklisted for no token; for
\* every decodable token, whatever its jti.
C30_ScopesDoNotLeak ==
    [][/\ last'.op = "addToBlacklist" =>
             LookupsKept({t \in Decodable : t.jti # last'.token.jti}, Users)
       /\ last'.op = "blacklistUserTokens" =>
             LookupsKept(Decodable, Users \ {last'.userId})]_vars

\* The part of C30 that holds: the scopes are disjoint for the tokens
\* JWTService issued, whose jti is a nanoid.
IssuedScopesDoNotLeak ==
    [][/\ (last'.op = "addToBlacklist" /\ last'.token \in issued) =>
             LookupsKept({t \in Decodable : t.jti # last'.token.jti}, Users)
       /\ last'.op = "blacklistUserTokens" =>
             LookupsKept(issued, Users \ {last'.userId})]_vars

\* The marker of an issued token was stored.
IssuedTokenMarked ==
    /\ last.op = "addToBlacklist" /\ last.token \in issued /\ last.stored
    /\ isBlacklisted(cache, cacheUp, last.token, now)

====
